---- MODULE Spec2Model ----
(***************************************************************************)
(* A model of the parser of dc03/wis (src/src/Parser/VisitorTypes.hpp,     *)
(* which holds Parser.cpp): multi-module import resolution, the scoped     *)
(* context guards and the contextual keywords.                             *)
(*                                                                         *)
(* Part I models Parser::import_statement and the process-wide registry    *)
(* Parser::parsed_modules at the granularity of top-level declarations.    *)
(* Nested parsers are frames of an explicit stack (the C++ call stack).    *)
(***************************************************************************)
EXTENDS Integers, Sequences, FiniteSets, TLC

\* ------------------------------------------------------------------ bounds
\* Most parsers nested inside one another (root included); one more call
\* exhausts the call stack.
MaxNest == 4
\* Most declarations (imports and aborting ones) in all the sources of one
\* compilation.
MaxDecls == 6

\* the most pieces a token stream of Part II is made of
MaxFrags == 4

\* The most methods of a class in the statement streams.
MaxMethods == 3

\* ------------------------------------------------------------ file system
\* A path is a sequence of components.  An import lexeme is a record
\* [abs, comps]: "d/a" is [abs |-> FALSE, comps |-> <<"d", "a">>].
Rel(comps) == [abs |-> FALSE, comps |-> comps]

\* The source trees a compilation may run on: the import strings that occur
\* in its sources and the files std::ifstream can open.  The first has two
\* files of one basename and a path that does not exist.  The second has four
\* modules of different names; they are interchangeable, and "fresh" names
\* them in the order in which the sources first mention them.
SourceTrees ==
    { [ strings |-> { Rel(<<"a">>), Rel(<<"b">>), Rel(<<"d", "a">>), Rel(<<"nofile">>) },
        files   |-> { <<"a">>, <<"b">>, <<"d", "a">> },
        fresh   |-> << >> ],
      [ strings |-> { Rel(<<"a">>), Rel(<<"b">>), Rel(<<"c">>), Rel(<<"d">>) },
        files   |-> { <<"a">>, <<"b">>, <<"c">>, <<"d">> },
        fresh   |-> << Rel(<<"a">>), Rel(<<"b">>), Rel(<<"c">>), Rel(<<"d">>) >> ] }

\* A source tree of five modules of different names, and a path that does
\* not exist.
ChainTree ==
    [ strings |-> { Rel(<<"a">>), Rel(<<"b">>), Rel(<<"c">>), Rel(<<"d">>), Rel(<<"e">>),
                    Rel(<<"nofile">>) },
      files   |-> { <<"a">>, <<"b">>, <<"c">>, <<"d">>, <<"e">> },
      fresh   |-> << >> ]

AllStrings == UNION { t.strings : t \in SourceTrees \cup {ChainTree} }
AllFiles == UNION { t.files : t \in SourceTrees \cup {ChainTree} }

\* The file the driver is started on, and its directory ("": the working
\* directory).
RootFile == <<"main">>
RootDirectory == << >>

\* What one top-level declaration of a file does to the import machinery:
\*  import : `import "path";`
\*  abort  : a declaration after which a ParseException leaves program()
\*  eof    : END_OF_FILE, program() returns
\* Any other declaration leaves the state of this part as it is.
Declarations ==
    [kind : {"import"}, path : AllStrings]
        \cup [kind : {"abort", "eof"}, path : {Rel(<< >>)}]

Last(s) == s[Len(s)]

\* imported.lexeme.substr(find_last_of('/') + 1)
ModuleName(lexeme) == Last(lexeme.comps)

\* imported.lexeme[0] == '/' ? "" : current_module.module_directory
ImportedDir(lexeme, module_directory) ==
    IF lexeme.abs THEN << >> ELSE module_directory

\* imported_dir + imported.lexeme
FullPath(lexeme, module_directory) ==
    IF lexeme.abs THEN <<"/">> \o lexeme.comps
    ELSE ImportedDir(lexeme, module_directory) \o lexeme.comps


\* ------------------------------------------------------------------ state
VARIABLES
    tree,            \* the source tree of this compilation
    files,           \* the declarations read so far from each file
    parsed_modules,  \* Parser::parsed_modules: <<Module, depth>> in creation order
    stack,           \* the parsers in progress, root first
    logger,          \* the diagnostic sink: source, module_name, errors reported
    scans,           \* per file: how many times import_statement scanned and parsed it
    status,          \* running | returned | aborted | overflow
    last             \* the operation that finished last, and the sink at its entry

vars == <<tree, files, parsed_modules, stack, logger, scans, status, last>>

\* The state of Part II, the parser at work on one token stream.  Part I
\* leaves it alone.
VARIABLES
    tokens,      \* the token stream, END_OF_FILE last
    parser,      \* the Parser object's fields
    statements,  \* program()'s statement list
    pstatus,     \* idle | parsing | returned | threw
    first        \* what an earlier program() on the same tokens and module left

pvars == <<tokens, parser, statements, pstatus, first>>
allvars == <<vars, pvars>>


top == stack[Len(stack)]

\* Module{name, module_directory} with its imported list
NewModule(name, dir) == [name |-> name, module_directory |-> dir, imported |-> << >>]

\* Parser::Parser(tokens, module, current_depth), with the locals of the
\* import_statement call that runs it (logger_source, logger_module_name).
NewParser(module, depth, file, src, name, entry) ==
    [ current_module       |-> module,
      current_module_depth |-> depth,
      file                 |-> file,
      current              |-> 0,
      logger_source        |-> src,
      logger_module_name   |-> name,
      entry                |-> entry ]

SinkContext == [source |-> logger.source, module_name |-> logger.module_name]

RECURSIVE SumLen(_, _)
SumLen(f, S) ==
    IF S = {} THEN 0
    ELSE LET x == CHOOSE y \in S : TRUE
         IN  Len(SelectSeq(f[x], LAMBDA d : d.kind # "eof")) + SumLen(f, S \ {x})

\* The declarations read so far.
DeclsRead == SumLen(files, DOMAIN files)

\* The import strings the sources read so far mention.
Mentioned ==
    { p \in tree.strings :
          \E f \in DOMAIN files : \E k \in 1..Len(files[f]) :
              files[f][k].kind = "import" /\ files[f][k].path = p }

\* An interchangeable name is first mentioned after those before it.
InOrder(path) ==
    \A i \in 1..Len(tree.fresh) :
        (tree.fresh[i] = path /\ path \notin Mentioned)
            => \A j \in 1..(i - 1) : tree.fresh[j] \in Mentioned

\* d is the next top-level declaration of the file the top parser reads: the
\* one read before at that position, or a new one when the file was never
\* read that far.
Reads(d) ==
    LET f == top.file
        k == top.current + 1
    IN  IF k <= Len(files[f])
        THEN d = files[f][k] /\ files' = files
        ELSE /\ d \in Declarations
             /\ d.kind # "eof" => DeclsRead < MaxDecls
             /\ d.kind = "import" => d.path \in tree.strings /\ InOrder(d.path)
             /\ files' = [files EXCEPT ![f] = Append(@, d)]

\* std::find_if over parsed_modules by name: the 0-based index, or -1
FindModule(reg, module_name) ==
    IF \E i \in 1..Len(reg) : reg[i].name = module_name
    THEN (CHOOSE i \in 1..Len(reg) :
              /\ reg[i].name = module_name
              /\ \A j \in 1..(i - 1) : reg[j].name # module_name) - 1
    ELSE -1

RECURSIVE recursively_change_module_depth(_, _, _)
RECURSIVE ChangeImported(_, _, _, _)
\* module.second = value; then every imported module, in order, at value + 1
recursively_change_module_depth(reg, i, value) ==
    ChangeImported([reg EXCEPT ![i + 1].second = value], reg[i + 1].imported, 1, value + 1)

ChangeImported(reg, imported, k, value) ==
    IF k > Len(imported) THEN reg
    ELSE ChangeImported(recursively_change_module_depth(reg, imported[k], value),
                        imported, k + 1, value)

\* error({"Cannot import module with the same name as the current one"}):
\* the errors this check reports; import_statement goes on after it.
SelfImportErrors(module_name, current_module) ==
    IF module_name = current_module.name THEN 1 ELSE 0

Init ==
    /\ tree \in SourceTrees
    /\ stack = << NewParser(NewModule(Last(RootFile), RootDirectory), 0, RootFile,
                            <<"driver">>, "driver",
                            [source |-> RootFile, module_name |-> Last(RootFile)]) >>
    /\ logger = [source |-> RootFile, module_name |-> Last(RootFile), errors |-> 0]
    /\ files = [f \in tree.files \cup {RootFile} |-> << >>]
    /\ parsed_modules = << >>
    /\ scans = [f \in tree.files |-> 0]
    /\ status = "running"
    /\ last = [op |-> "none", self |-> FALSE,
               entry |-> [source |-> << >>, module_name |-> ""]]
    /\ tokens = << >>
    /\ parser = [current |-> 0]
    /\ statements = << >>
    /\ pstatus = "idle"
    /\ first = [pstatus |-> "none"]

\* The sources of ChainTree, written out in full: every file is a list of
\* imports of different modules, and ends at END_OF_FILE, or (module e) with
\* a declaration that a ParseException leaves program() on.  main imports at
\* most two of d, a and the missing file; a at most two of b and d; b one of
\* c and e, or nothing; c one of e and d, or nothing; d imports e or nothing.
ChainSources ==
    LET Imports(names, most) ==
            { q \in UNION { [1..n -> names] : n \in 0..most } :
                  \A i, j \in DOMAIN q : i # j => q[i] # q[j] }
        Source(q, end) ==
            [k \in 1..(Len(q) + 1) |->
                IF k <= Len(q) THEN [kind |-> "import", path |-> Rel(<<q[k]>>)]
                ELSE [kind |-> end, path |-> Rel(<< >>)]]
    IN  { (<<"main">> :> Source(m, "eof")) @@ (<<"a">> :> Source(a, "eof"))
            @@ (<<"b">> :> Source(b, "eof")) @@ (<<"c">> :> Source(c, "eof"))
            @@ (<<"d">> :> Source(d, "eof")) @@ (<<"e">> :> Source(<< >>, end)) :
              m \in Imports({"d", "a", "nofile"}, 2), a \in Imports({"b", "d"}, 2),
              b \in Imports({"c", "e"}, 1), c \in Imports({"e", "d"}, 1),
              d \in Imports({"e"}, 1), end \in {"eof", "abort"} }

\* The compilation of one of these sources.
InitChain ==
    /\ tree = ChainTree
    /\ files \in ChainSources
    /\ stack = << NewParser(NewModule(Last(RootFile), RootDirectory), 0, RootFile,
                            <<"driver">>, "driver",
                            [source |-> RootFile, module_name |-> Last(RootFile)]) >>
    /\ logger = [source |-> RootFile, module_name |-> Last(RootFile), errors |-> 0]
    /\ parsed_modules = << >>
    /\ scans = [f \in tree.files |-> 0]
    /\ status = "running"
    /\ last = [op |-> "none", self |-> FALSE,
               entry |-> [source |-> << >>, module_name |-> ""]]
    /\ tokens = << >>
    /\ parser = [current |-> 0]
    /\ statements = << >>
    /\ pstatus = "idle"
    /\ first = [pstatus |-> "none"]

\* The top parser finished one declaration.
Advance(stk) == [stk EXCEPT ![Len(stk)].current = @ + 1]

\* A slip: no return after the error; the unopened stream reads as an empty
\* source, which is parsed, type-checked and registered.
ImportUnopenable_FallsThrough ==
    /\ status = "running"
    /\ \E d \in Declarations :
          /\ d.kind = "import"
          /\ Reads(d)
          /\ FullPath(d.path, top.current_module.module_directory) \notin tree.files
          /\ parsed_modules' = Append(parsed_modules,
                 [ name             |-> ModuleName(d.path),
                   module_directory |-> ImportedDir(d.path, top.current_module.module_directory),
                   imported         |-> << >>,
                   second           |-> top.current_module_depth + 1,
                   file             |-> FullPath(d.path, top.current_module.module_directory),
                   checks           |-> 1 ])
    /\ logger' = [logger EXCEPT !.errors = @ + 1]
    /\ stack' = Advance([stack EXCEPT ![Len(stack)].current_module.imported =
                             Append(@, Len(parsed_modules))])
    /\ last' = [op |-> "unopenable", self |-> FALSE, entry |-> SinkContext]
    /\ UNCHANGED <<pvars, tree, scans, status>>

\* import_statement: the file cannot be opened.
ImportUnopenable ==
    /\ status = "running"
    /\ \E d \in Declarations :
          /\ d.kind = "import"
          /\ Reads(d)
          /\ FullPath(d.path, top.current_module.module_directory) \notin tree.files
    /\ logger' = [logger EXCEPT !.errors = @ + 1]
    /\ stack' = Advance(stack)
    /\ last' = [op |-> "unopenable", self |-> FALSE, entry |-> SinkContext]
    /\ UNCHANGED <<pvars, tree, parsed_modules, scans, status>>

\* A slip: parsed_modules.size() recorded instead of it - parsed_modules.begin().
ImportRegistered_RecordsSize ==
    /\ status = "running"
    /\ \E d \in Declarations :
          /\ d.kind = "import"
          /\ Reads(d)
          /\ FullPath(d.path, top.current_module.module_directory) \in tree.files
          /\ LET module_name == ModuleName(d.path)
                 it == FindModule(parsed_modules, module_name)
             IN  /\ it # -1
                 /\ logger' = [logger EXCEPT !.errors =
                                   @ + SelfImportErrors(module_name, top.current_module)]
                 /\ parsed_modules' =
                        IF parsed_modules[it + 1].second < top.current_module_depth + 1
                        THEN recursively_change_module_depth(
                                 parsed_modules, it, top.current_module_depth + 1)
                        ELSE parsed_modules
                 /\ stack' = Advance([stack EXCEPT ![Len(stack)].current_module.imported =
                                          Append(@, Len(parsed_modules))])
                 /\ last' = [op |-> "registered", self |-> module_name = top.current_module.name,
                             entry |-> SinkContext]
    /\ UNCHANGED <<pvars, tree, scans, status>>

\* import_statement: the module name is in the registry already.
ImportRegistered ==
    /\ status = "running"
    /\ \E d \in Declarations :
          /\ d.kind = "import"
          /\ Reads(d)
          /\ FullPath(d.path, top.current_module.module_directory) \in tree.files
          /\ LET module_name == ModuleName(d.path)
                 it == FindModule(parsed_modules, module_name)
             IN  /\ it # -1
                 /\ logger' = [logger EXCEPT !.errors =
                                   @ + SelfImportErrors(module_name, top.current_module)]
                 /\ parsed_modules' =
                        IF parsed_modules[it + 1].second < top.current_module_depth + 1
                        THEN recursively_change_module_depth(
                                 parsed_modules, it, top.current_module_depth + 1)
                        ELSE parsed_modules
                 /\ stack' = Advance([stack EXCEPT ![Len(stack)].current_module.imported =
                                          Append(@, it)])
                 /\ last' = [op |-> "registered", self |-> module_name = top.current_module.name,
                             entry |-> SinkContext]
    /\ UNCHANGED <<pvars, tree, scans, status>>

\* import_statement: a module not in the registry; the sink is switched to the
\* module, its source is scanned and a nested parser starts on it.
ImportNew ==
    /\ status = "running"
    /\ Len(stack) < MaxNest
    /\ \E d \in Declarations :
          /\ d.kind = "import"
          /\ Reads(d)
          /\ LET module_name  == ModuleName(d.path)
                 imported_dir == ImportedDir(d.path, top.current_module.module_directory)
                 file         == FullPath(d.path, top.current_module.module_directory)
             IN  /\ file \in tree.files
                 /\ FindModule(parsed_modules, module_name) = -1
                 /\ logger' = [source      |-> file,
                               module_name |-> module_name,
                               errors      |-> logger.errors
                                   + SelfImportErrors(module_name, top.current_module)]
                 /\ scans' = [scans EXCEPT ![file] = @ + 1]
                 /\ stack' = Append(stack,
                        NewParser(NewModule(module_name, imported_dir),
                                  top.current_module_depth + 1, file,
                                  logger.source, logger.module_name, SinkContext))
                 /\ last' = [op |-> "new", self |-> module_name = top.current_module.name,
                             entry |-> SinkContext]
    /\ UNCHANGED <<pvars, tree, parsed_modules, status>>

\* The same import with MaxNest parsers on the call stack: the recursion
\* exhausts the stack.
StackOverflow ==
    /\ status = "running"
    /\ Len(stack) = MaxNest
    /\ \E d \in Declarations :
          /\ d.kind = "import"
          /\ Reads(d)
          /\ FullPath(d.path, top.current_module.module_directory) \in tree.files
          /\ FindModule(parsed_modules, ModuleName(d.path)) = -1
          /\ last' = [op |-> "overflow", self |-> ModuleName(d.path) = top.current_module.name,
                      entry |-> SinkContext]
    /\ status' = "overflow"
    /\ UNCHANGED <<pvars, tree, parsed_modules, stack, logger, scans>>

\* The tail of import_statement after the nested parser: the sink becomes
\* `sink`, the module is appended to the registry and `index` is recorded in
\* the importer's imported list.
Registered(checks, sink, index) ==
    LET parent == stack[Len(stack) - 1]
        entry  == [ name             |-> top.current_module.name,
                    module_directory |-> top.current_module.module_directory,
                    imported         |-> top.current_module.imported,
                    second           |-> parent.current_module_depth + 1,
                    file             |-> top.file,
                    checks           |-> checks ]
        popped == SubSeq(stack, 1, Len(stack) - 1)
    IN  /\ logger' = sink
        /\ parsed_modules' = Append(parsed_modules, entry)
        /\ stack' = Advance([popped EXCEPT ![Len(popped)].current_module.imported =
                                 Append(@, index)])

\* logger.set_source(logger_source); logger.set_module_name(logger_module_name)
RestoredSink ==
    [logger EXCEPT !.source = top.logger_source, !.module_name = top.logger_module_name]

\* A slip: parsed_modules.size() recorded instead of parsed_modules.size() - 1.
Register_OffByOne(checks) ==
    Registered(checks, RestoredSink, Len(parsed_modules) + 1)

\* The sink is restored, then parsed_modules.emplace_back(...) and
\* current_module.imported.push_back(parsed_modules.size() - 1).
Register(checks) ==
    Registered(checks, RestoredSink, Len(parsed_modules))

\* The nested program() returns at END_OF_FILE; TypeResolver::check runs.
ImportReturn ==
    /\ status = "running"
    /\ Len(stack) > 1
    /\ \E d \in Declarations :
          /\ d.kind = "eof"
          /\ Reads(d)
    /\ Register(1)
    /\ last' = [op |-> "new_done", self |-> FALSE, entry |-> top.entry]
    /\ UNCHANGED <<pvars, tree, scans, status>>

\* A slip: the sink restored inside the try block, skipped by the exception.
ImportAbort_NoRestore ==
    /\ status = "running"
    /\ Len(stack) > 1
    /\ \E d \in Declarations :
          /\ d.kind = "abort"
          /\ Reads(d)
    /\ Registered(0, logger, Len(parsed_modules))
    /\ last' = [op |-> "new_aborted", self |-> FALSE, entry |-> top.entry]
    /\ UNCHANGED <<pvars, tree, scans, status>>

\* A slip: TypeResolver::check after the try block, run on an aborted parse too.
ImportAbort_Checks ==
    /\ status = "running"
    /\ Len(stack) > 1
    /\ \E d \in Declarations :
          /\ d.kind = "abort"
          /\ Reads(d)
    /\ Register(1)
    /\ last' = [op |-> "new_aborted", self |-> FALSE, entry |-> top.entry]
    /\ UNCHANGED <<pvars, tree, scans, status>>

\* A ParseException leaves the nested program(); import_statement catches it,
\* and TypeResolver::check is skipped.
ImportAbort ==
    /\ status = "running"
    /\ Len(stack) > 1
    /\ \E d \in Declarations :
          /\ d.kind = "abort"
          /\ Reads(d)
    /\ Register(0)
    /\ last' = [op |-> "new_aborted", self |-> FALSE, entry |-> top.entry]
    /\ UNCHANGED <<pvars, tree, scans, status>>

\* The root program() returns, or a ParseException leaves it.
RootEnd ==
    /\ status = "running"
    /\ Len(stack) = 1
    /\ \E d \in Declarations :
          /\ d.kind \in {"eof", "abort"}
          /\ Reads(d)
          /\ status' = IF d.kind = "eof" THEN "returned" ELSE "aborted"
    /\ last' = [op |-> "root_end", self |-> FALSE, entry |-> SinkContext]
    /\ UNCHANGED <<pvars, tree, parsed_modules, stack, logger, scans>>

Next ==
    \/ ImportUnopenable
    \/ ImportRegistered
    \/ ImportNew
    \/ StackOverflow
    \/ ImportReturn
    \/ ImportAbort
    \/ RootEnd

Spec == Init /\ [][Next]_allvars

SpecChain == InitChain /\ [][Next]_allvars


(***************************************************************************)
(* Part II models the recursive-descent parser on one token stream:        *)
(* program(), declaration(), the statements and the Pratt expressions.     *)
(* A parse function is an operator from the parser's state to a result     *)
(* [p, exc, node, flag]: the state it leaves, the exception it throws      *)
(* ("none" when it returns), the node it returns, and match()'s answer.    *)
(* The scoped managers are applied as their constructor on entry and their *)
(* destructor on the result, returned or thrown.                           *)
(*                                                                         *)
(* `lex` is not part of the program: it is the lexical position of the     *)
(* code being parsed (inside a class body, a function body, a loop body, a *)
(* switch body), passed down the grammar, and p.log records with it every  *)
(* contextual keyword the parser accepts or rejects.                       *)
(***************************************************************************)
Tok(type, lexeme) == [type |-> type, lexeme |-> lexeme]

Null == [type |-> "null"]

Ok(p, node) == [p |-> p, exc |-> "none", node |-> node, flag |-> FALSE]
Throw(p) == [p |-> p, exc |-> "ParseException", node |-> Null, flag |-> FALSE]

\* error(message, where)
Error(p, message) == [p EXCEPT !.errors = Append(@, message)]

\* ParsePrecedence::of
Prec ==
    [ NONE |-> 0, COMMA |-> 1, ASSIGNMENT |-> 2, TERNARY |-> 3, LOGIC_OR |-> 4,
      LOGIC_AND |-> 5, BIT_OR |-> 6, BIT_XOR |-> 7, BIT_AND |-> 8, EQUALITY |-> 9,
      ORDERING |-> 10, SHIFT |-> 11, RANGE |-> 12, SUM |-> 13, PRODUCT |-> 14,
      UNARY |-> 15, CALL |-> 16, PRIMARY |-> 17 ]

Rule(prefix, infix, precedence) ==
    [prefix |-> prefix, infix |-> infix, precedence |-> precedence]

\* The rule table the constructor fills; every rule it does not list is
\* {nullptr, nullptr, NONE}.
get_rule(type) ==
    CASE type = "COMMA" -> Rule("nullptr", "comma", Prec.COMMA)
      [] type = "QUESTION" -> Rule("nullptr", "ternary", Prec.TERNARY)
      [] type = "BIT_OR" -> Rule("nullptr", "binary", Prec.BIT_OR)
      [] type = "BIT_XOR" -> Rule("nullptr", "binary", Prec.BIT_XOR)
      [] type = "BIT_AND" -> Rule("nullptr", "binary", Prec.BIT_AND)
      [] type \in {"NOT_EQUAL", "EQUAL_EQUAL"} -> Rule("nullptr", "binary", Prec.EQUALITY)
      [] type \in {"GREATER", "GREATER_EQUAL", "LESS", "LESS_EQUAL"} ->
             Rule("nullptr", "binary", Prec.ORDERING)
      [] type \in {"RIGHT_SHIFT", "LEFT_SHIFT"} -> Rule("nullptr", "binary", Prec.SHIFT)
      [] type \in {"DOT_DOT", "DOT_DOT_EQUAL"} -> Rule("nullptr", "binary", Prec.RANGE)
      [] type \in {"MINUS", "PLUS"} -> Rule("unary", "binary", Prec.SUM)
      [] type \in {"MODULO", "SLASH", "STAR"} -> Rule("nullptr", "binary", Prec.PRODUCT)
      [] type \in {"NOT", "BIT_NOT", "PLUS_PLUS", "MINUS_MINUS"} ->
             Rule("unary", "nullptr", Prec.UNARY)
      [] type = "DOT" -> Rule("nullptr", "dot", Prec.CALL)
      [] type = "LEFT_PAREN" -> Rule("grouping", "call", Prec.CALL)
      [] type = "LEFT_INDEX" -> Rule("list", "index", Prec.CALL)
      [] type = "LEFT_BRACE" -> Rule("tuple", "nullptr", Prec.NONE)
      [] type = "DOUBLE_COLON" -> Rule("nullptr", "scope_access", Prec.PRIMARY)
      [] type \in {"IDENTIFIER", "FLOAT", "INT", "STRING"} ->
             Rule("variable", "nullptr", Prec.NONE)
      [] type \in {"STRING_VALUE", "INT_VALUE", "FLOAT_VALUE", "FALSE", "TRUE"} ->
             Rule("literal", "nullptr", Prec.NONE)
      [] type = "AND" -> Rule("nullptr", "and_", Prec.LOGIC_AND)
      [] type = "OR" -> Rule("nullptr", "or_", Prec.LOGIC_OR)
      [] type = "SUPER" -> Rule("super", "nullptr", Prec.NONE)
      [] type = "THIS" -> Rule("this_expr", "nullptr", Prec.NONE)
      [] OTHER -> Rule("nullptr", "nullptr", Prec.NONE)

AssignmentOperators ==
    {"EQUAL", "PLUS_EQUAL", "MINUS_EQUAL", "STAR_EQUAL", "SLASH_EQUAL"}

\* ---------------------------------------------------------- the cursor
\* The rest of a function body after a call that may throw: an exception
\* leaves the function at the call, a normal return goes on with Rest.
Bind(r, Rest(_)) == IF r.exc # "none" THEN r ELSE Rest(r)

\* try { r } catch (<caught>) { Handler }
Catch(r, caught, Handler(_)) == IF r.exc \in caught THEN Handler(r) ELSE r

is_at_end(p) == p.current >= Len(tokens)

previous(p) == tokens[p.current]

\* tokens[current]; with current == tokens.size() the read is past the end
\* of the vector and yields whatever lies there.
peek(p) == IF p.current < Len(tokens) THEN tokens[p.current + 1] ELSE p.beyond

check(p, type) == peek(p).type = type

advance(p) ==
    IF is_at_end(p)
    THEN Throw(Error(p, "Found unexpected EOF while parsing"))
    ELSE Ok([p EXCEPT !.current = @ + 1], Null)

match(p, types) ==
    IF peek(p).type \in types
    THEN Bind(advance(p), LAMBDA a : [a EXCEPT !.flag = TRUE])
    ELSE Ok(p, Null)

consume(p, message, types) ==
    Bind(match(p, types), LAMBDA m :
    IF m.flag THEN m ELSE Throw(Error(p, message)))

\* A slip: the assignment operator after an expression is never looked for.
MatchAssignment_Never(p, can_assign) == Ok(p, Null)

\* if (can_assign && match(<assignment operators>))
MatchAssignment(p, can_assign) ==
    IF can_assign THEN match(p, AssignmentOperators) ELSE Ok(p, Null)

\* ---------------------------------------------------- the scoped managers
\* ScopedBooleanManager: the constructor sets the flag, the destructor puts
\* back the value the constructor saw.
ScopedBooleanManager(p, flag) == [p EXCEPT ![flag] = TRUE]

\* A restore written at the end of the scope instead of in a destructor: it
\* is skipped when the scope is left by an exception.
ScopedBooleanManager_dtor_NoUnwind(r, flag, previous_value) ==
    IF r.exc = "none" THEN [r EXCEPT !.p[flag] = previous_value] ELSE r

ScopedBooleanManager_dtor(r, flag, previous_value) ==
    [r EXCEPT !.p[flag] = previous_value]

\* ScopedIntegerManager: controlled++, then scoped_int--.
ScopedIntegerManager(p) == [p EXCEPT !.scope_depth = @ + 1]

ScopedIntegerManager_dtor(r) == [r EXCEPT !.p.scope_depth = @ - 1]

\* ScopedPointerManager: the destructor puts back the pointer.
ScopedPointerManager_dtor(r, previous_pointer) ==
    [r EXCEPT !.p.current_methods = previous_pointer]

NullMethods == [null |-> TRUE, methods |-> << >>]

\* ------------------------------------------------ the lexical position
TopLevel == [class |-> FALSE, function |-> FALSE, loop |-> FALSE, switch |-> FALSE]

\* The token kinds of the contextual keywords.
ContextualKeyword ==
    [ BREAK |-> "break", CONTINUE |-> "continue", RETURN |-> "return",
      THIS |-> "this", SUPER |-> "super" ]

\* What became of a contextual keyword the parser took from the stream, and
\* where it stood: "node" when its node was allocated, "error" when it was
\* rejected with a diagnostic, "name" when it was taken as a parameter name.
Logged(p, event, keyword, lex) ==
    [p EXCEPT !.log = Append(@, [event |-> event, keyword |-> keyword, lex |-> lex])]

\* ------------------------------------------------------ the expressions
RECURSIVE parse_precedence(_, _, _)

expression(p, lex) == parse_precedence(p, Prec.COMMA, lex)

assignment(p, lex) == parse_precedence(p, Prec.ASSIGNMENT, lex)

and_(p, can_assign, left, lex) ==
    Bind(parse_precedence(p, Prec.LOGIC_AND, lex), LAMBDA r :
    Ok(r.p, [type |-> "Logical", left |-> left, right |-> r.node, oper |-> previous(p)]))

binary(p, can_assign, left, lex) ==
    Bind(parse_precedence(p, get_rule(previous(p).type).precedence + 1, lex), LAMBDA r :
    Ok(r.p, [type |-> "Binary", left |-> left, right |-> r.node, oper |-> previous(p)]))

\* do { exprs.emplace_back(assignment()); } while (match(COMMA));
RECURSIVE AssignmentList(_, _, _)
AssignmentList(p, exprs, lex) ==
    Bind(assignment(p, lex), LAMBDA r :
    Bind(match(r.p, {"COMMA"}), LAMBDA m :
    IF m.flag THEN AssignmentList(m.p, Append(exprs, r.node), lex)
    ELSE Ok(m.p, [type |-> "exprs", exprs |-> Append(exprs, r.node)])))

call(p, can_assign, function, lex) ==
    Bind(IF peek(p).type # "RIGHT_PAREN" THEN AssignmentList(p, << >>, lex)
         ELSE Ok(p, [type |-> "exprs", exprs |-> << >>]), LAMBDA args :
    Bind(consume(args.p, "Expected ')' after function call", {"RIGHT_PAREN"}), LAMBDA c :
    Ok(c.p, [type |-> "Call", function |-> function, args |-> args.node.exprs,
             paren |-> previous(p)])))

comma(p, can_assign, left, lex) ==
    Bind(AssignmentList(p, <<left>>, lex), LAMBDA r :
    Ok(r.p, [type |-> "Comma", exprs |-> r.node.exprs]))

\* num.find('.'): the index of the first '.', 0 when there is none
FindDot(num) ==
    IF \E i \in 1..Len(num) : num[i] = "."
    THEN CHOOSE i \in 1..Len(num) : num[i] = "." /\ \A j \in 1..(i - 1) : num[j] # "."
    ELSE 0

\* dot() after the name: a Set when an assignment operator follows and
\* assignment is allowed, a Get otherwise
DotAccess(p, can_assign, object, name, lex) ==
    Bind(MatchAssignment(p, can_assign), LAMBDA m :
    IF m.flag
    THEN Bind(assignment(m.p, lex), LAMBDA value :
         Ok(value.p, [type |-> "Set", object |-> object, name |-> name,
                      value |-> value.node, oper |-> previous(m.p)]))
    ELSE Ok(m.p, [type |-> "Get", object |-> object, name |-> name]))

\* dot() without the transformation of left
dot_Unchained(p, can_assign, left, lex) ==
    IF peek(p).type = "FLOAT_VALUE"
    THEN IF FindDot(peek(p).lexeme) = 0
         THEN Bind(advance(Error(p, "Use of float literal in member access")), LAMBDA a :
              Throw(Error(a.p, "Use of float literal in member access")))
         ELSE Bind(advance(p), LAMBDA a :
              DotAccess(a.p, can_assign,
                        left,
                        Tok("INT_VALUE",
                            SubSeq(peek(p).lexeme, FindDot(peek(p).lexeme) + 1,
                                   Len(peek(p).lexeme))),
                        lex))
    ELSE Bind(consume(p, "Expected identifier or integer literal after '.'",
                      {"IDENTIFIER", "INT_VALUE"}), LAMBDA c :
         DotAccess(c.p, can_assign, left, previous(c.p), lex))

dot(p, can_assign, left, lex) ==
    IF peek(p).type = "FLOAT_VALUE"
    THEN IF FindDot(peek(p).lexeme) = 0
         THEN Bind(advance(Error(p, "Use of float literal in member access")), LAMBDA a :
              Throw(Error(a.p, "Use of float literal in member access")))
         ELSE Bind(advance(p), LAMBDA a :
              DotAccess(a.p, can_assign,
                        [type |-> "Get", object |-> left,
                         name |-> Tok("INT_VALUE",
                                      SubSeq(peek(p).lexeme, 1, FindDot(peek(p).lexeme) - 1))],
                        Tok("INT_VALUE",
                            SubSeq(peek(p).lexeme, FindDot(peek(p).lexeme) + 1,
                                   Len(peek(p).lexeme))),
                        lex))
    ELSE Bind(consume(p, "Expected identifier or integer literal after '.'",
                      {"IDENTIFIER", "INT_VALUE"}), LAMBDA c :
         DotAccess(c.p, can_assign, left, previous(c.p), lex))

\* index() after ']'
IndexAccess(p, can_assign, ind, lex) ==
    Bind(MatchAssignment(p, can_assign), LAMBDA m :
    IF m.flag
    THEN Bind(assignment(m.p, lex), LAMBDA value :
         Ok(value.p, [type |-> "ListAssign", list |-> ind, value |-> value.node,
                      oper |-> previous(m.p)]))
    ELSE Ok(m.p, ind))

index(p, can_assign, object, lex) ==
    Bind(expression(p, lex), LAMBDA i :
    Bind(consume(i.p, "Expected ']' after array subscript index", {"RIGHT_INDEX"}), LAMBDA c :
    IndexAccess(c.p, can_assign,
                [type |-> "Index", object |-> object, index |-> i.node,
                 oper |-> previous(p)], lex)))

or_(p, can_assign, left, lex) ==
    Bind(parse_precedence(p, Prec.LOGIC_OR, lex), LAMBDA r :
    Ok(r.p, [type |-> "Logical", left |-> left, right |-> r.node, oper |-> previous(p)]))

grouping(p, can_assign, lex) ==
    Bind(expression(p, lex), LAMBDA e :
    Bind(consume(e.p, "Expected ')' after parenthesized expression", {"RIGHT_PAREN"}),
         LAMBDA c : Ok(c.p, [type |-> "Grouping", expr |-> e.node])))

\* do { elements.emplace_back(assignment()); }
\* while (match(COMMA) && peek().type != RIGHT_INDEX);
RECURSIVE ListElements(_, _, _)
ListElements(p, elements, lex) ==
    Bind(assignment(p, lex), LAMBDA r :
    Bind(match(r.p, {"COMMA"}), LAMBDA m :
    IF m.flag /\ peek(m.p).type # "RIGHT_INDEX"
    THEN ListElements(m.p, Append(elements, r.node), lex)
    ELSE Ok(m.p, [type |-> "exprs", exprs |-> Append(elements, r.node)])))

list(p, can_assign, lex) ==
    Bind(IF peek(p).type # "RIGHT_INDEX" THEN ListElements(p, << >>, lex)
         ELSE Ok(p, [type |-> "exprs", exprs |-> << >>]), LAMBDA elements :
    Bind(match(elements.p, {"COMMA"}), LAMBDA m :
    Bind(consume(m.p, "Expected ']' after list expression", {"RIGHT_INDEX"}), LAMBDA c :
    Ok(c.p, [type |-> "List", bracket |-> previous(p),
             elements |-> elements.node.exprs]))))

\* std::stoi on an integer lexeme, one character per element: the value,
\* or -1 where std::stoi throws std::out_of_range (the value exceeds int).
INT_MAX == 2147483647

Digit(c) ==
    CASE c = "0" -> 0 [] c = "1" -> 1 [] c = "2" -> 2 [] c = "3" -> 3 [] c = "4" -> 4
      [] c = "5" -> 5 [] c = "6" -> 6 [] c = "7" -> 7 [] c = "8" -> 8 [] c = "9" -> 9

RECURSIVE StoIFrom(_, _, _)
StoIFrom(lexeme, i, value) ==
    IF i > Len(lexeme) THEN value
    ELSE IF value * 10 + Digit(lexeme[i]) > INT_MAX THEN -1
    ELSE StoIFrom(lexeme, i + 1, value * 10 + Digit(lexeme[i]))

StoI(lexeme) == StoIFrom(lexeme, 1, 0)

\* while (match(STRING_VALUE)) { value += previous().lexeme; }
RECURSIVE StringValues(_, _)
StringValues(p, value) ==
    Bind(match(p, {"STRING_VALUE"}), LAMBDA m :
    IF m.flag THEN StringValues(m.p, value \o previous(m.p).lexeme)
    ELSE Ok(m.p, [type |-> "value", value |-> value]))

Literal(token, primitive, value) ==
    [ type  |-> "Literal", token |-> token, value |-> value,
      info  |-> [type |-> "PrimitiveType", primitive |-> primitive,
                 is_const |-> TRUE, is_ref |-> FALSE] ]

literal(p, can_assign, lex) ==
    CASE previous(p).type = "INT_VALUE" ->
             IF StoI(previous(p).lexeme) = -1
             THEN [Throw(p) EXCEPT !.exc = "std::out_of_range"]
             ELSE Ok(p, Literal(previous(p), "INT", [int |-> StoI(previous(p).lexeme)]))
      [] previous(p).type = "FLOAT_VALUE" ->
             Ok(p, Literal(previous(p), "FLOAT", [double |-> previous(p).lexeme]))
      [] previous(p).type = "STRING_VALUE" ->
             Bind(StringValues(p, previous(p).lexeme), LAMBDA r :
             Ok(r.p, Literal(previous(p), "STRING", [string |-> r.node.value])))
      [] previous(p).type = "FALSE" -> Ok(p, Literal(previous(p), "BOOL", [bool |-> FALSE]))
      [] previous(p).type = "TRUE" -> Ok(p, Literal(previous(p), "BOOL", [bool |-> TRUE]))
      [] previous(p).type = "NULL_" -> Ok(p, Literal(previous(p), "NULL_", Null))
      [] OTHER -> Throw(p)

scope_access(p, can_assign, left, lex) ==
    Bind(consume(p, "Expected identifier to be accessed after scope name", {"IDENTIFIER"}),
         LAMBDA c : Ok(c.p, [type |-> "ScopeAccess", scope |-> left, name |-> previous(c.p),
                             oper |-> previous(p)]))

\* The legal positions of the contextual keywords.
Legal(keyword, lex) ==
    CASE keyword = "break"    -> lex.loop \/ lex.switch
      [] keyword = "continue" -> lex.loop
      [] keyword = "return"   -> lex.function
      [] keyword = "this"     -> lex.class /\ lex.function
      [] keyword = "super"    -> lex.class /\ lex.function

super(p, can_assign, lex) ==
    IF ~(p.in_class /\ p.in_function)
    THEN Throw(Logged(Error(p, "Cannot use super expression outside a class"),
                      "error", "super", lex))
    ELSE Bind(consume(p, "Expected '.' after 'super' keyword", {"DOT"}), LAMBDA c1 :
         Bind(consume(c1.p, "Expected name after '.' in super expression", {"IDENTIFIER"}),
              LAMBDA c2 :
         Ok(Logged(c2.p, "node", "super", lex),
            [type |-> "Super", keyword |-> previous(p), name |-> previous(c2.p)])))

ternary(p, can_assign, left, lex) ==
    Bind(parse_precedence(p, Prec.LOGIC_OR, lex), LAMBDA middle :
    Bind(consume(middle.p, "Expected colon in ternary expression", {"COLON"}), LAMBDA c :
    Bind(parse_precedence(c.p, Prec.TERNARY, lex), LAMBDA right :
    Ok(right.p, [type |-> "Ternary", left |-> left, middle |-> middle.node,
                 right |-> right.node, oper |-> previous(p)]))))

this_expr(p, can_assign, lex) ==
    IF ~(p.in_class /\ p.in_function)
    THEN Throw(Logged(Error(p, "Cannot use 'this' keyword outside a class's constructor or destructor"),
                      "error", "this", lex))
    ELSE Ok(Logged(p, "node", "this", lex), [type |-> "This", keyword |-> previous(p)])

\* while (peek().type != RIGHT_BRACE) { elements.emplace_back(assignment()); match(COMMA); }
RECURSIVE TupleElements(_, _, _)
TupleElements(p, elements, lex) ==
    IF peek(p).type # "RIGHT_BRACE"
    THEN Bind(assignment(p, lex), LAMBDA r :
         Bind(match(r.p, {"COMMA"}), LAMBDA m :
         TupleElements(m.p, Append(elements, r.node), lex)))
    ELSE Ok(p, [type |-> "exprs", exprs |-> elements])

tuple(p, can_assign, lex) ==
    Bind(TupleElements(p, << >>, lex), LAMBDA elements :
    Bind(consume(elements.p, "Expected '}' after tuple expression", {"RIGHT_BRACE"}),
         LAMBDA c :
    Ok(c.p, [type |-> "Tuple", brace |-> previous(p), elements |-> elements.node.exprs])))

unary(p, can_assign, lex) ==
    Bind(parse_precedence(p, get_rule(previous(p).type).precedence, lex), LAMBDA expr :
    Ok(expr.p, [type |-> "Unary", oper |-> previous(p), right |-> expr.node]))

variable(p, can_assign, lex) ==
    Bind(MatchAssignment(p, can_assign), LAMBDA m :
    IF m.flag
    THEN Bind(assignment(m.p, lex), LAMBDA value :
         Ok(value.p, [type |-> "Assign", target |-> previous(p), value |-> value.node,
                      oper |-> previous(m.p)]))
    ELSE IF peek(m.p).type = "DOUBLE_COLON"
    THEN Ok(m.p, [type |-> "ScopeName", name |-> previous(p)])
    ELSE Ok(m.p, [type |-> "Variable", name |-> previous(p)]))

\* std::invoke(prefix, this, can_assign)
Prefix(fn, p, can_assign, lex) ==
    CASE fn = "unary"     -> unary(p, can_assign, lex)
      [] fn = "grouping"  -> grouping(p, can_assign, lex)
      [] fn = "list"      -> list(p, can_assign, lex)
      [] fn = "tuple"     -> tuple(p, can_assign, lex)
      [] fn = "variable"  -> variable(p, can_assign, lex)
      [] fn = "literal"   -> literal(p, can_assign, lex)
      [] fn = "super"     -> super(p, can_assign, lex)
      [] fn = "this_expr" -> this_expr(p, can_assign, lex)

\* std::invoke(infix, this, can_assign, std::move(left))
Infix(fn, p, can_assign, left, lex) ==
    CASE fn = "comma"        -> comma(p, can_assign, left, lex)
      [] fn = "ternary"      -> ternary(p, can_assign, left, lex)
      [] fn = "binary"       -> binary(p, can_assign, left, lex)
      [] fn = "dot"          -> dot(p, can_assign, left, lex)
      [] fn = "call"         -> call(p, can_assign, left, lex)
      [] fn = "index"        -> index(p, can_assign, left, lex)
      [] fn = "scope_access" -> scope_access(p, can_assign, left, lex)
      [] fn = "and_"         -> and_(p, can_assign, left, lex)
      [] fn = "or_"          -> or_(p, can_assign, left, lex)

\* while (precedence <= get_rule(peek().type).precedence) { ... }
RECURSIVE InfixLoop(_, _, _, _, _)
InfixLoop(p, precedence, can_assign, left, lex) ==
    IF precedence <= get_rule(peek(p).type).precedence
    THEN Bind(advance(p), LAMBDA a :
         IF get_rule(previous(a.p).type).infix = "nullptr"
         THEN Throw(Error(a.p, "cannot occur in an infix/postfix expression"))
         ELSE Bind(Infix(get_rule(previous(a.p).type).infix, a.p, can_assign, left, lex),
                   LAMBDA r : InfixLoop(r.p, precedence, can_assign, r.node, lex)))
    ELSE Ok(p, left)

parse_precedence(p, precedence, lex) ==
    Bind(advance(p), LAMBDA a :
    IF get_rule(previous(a.p).type).prefix = "nullptr"
    THEN Throw(Error(a.p, "Unexpected token in expression"))
    ELSE Bind(Prefix(get_rule(previous(a.p).type).prefix, a.p,
                     precedence <= Prec.ASSIGNMENT, lex), LAMBDA left :
         Bind(InfixLoop(left.p, precedence, precedence <= Prec.ASSIGNMENT, left.node, lex),
              LAMBDA l :
         Bind(MatchAssignment(l.p, precedence <= Prec.ASSIGNMENT), LAMBDA m :
         IF m.flag THEN Throw(Error(m.p, "Invalid assignment target"))
         ELSE Ok(m.p, l.node)))))

\* ------------------------------------------------------------ the types
RECURSIVE type(_, _)

list_type(p, is_const, is_ref, lex) ==
    Bind(type(p, lex), LAMBDA contained :
    Bind(match(contained.p, {"COMMA"}), LAMBDA m :
    Bind(IF m.flag THEN expression(m.p, lex) ELSE Ok(m.p, Null), LAMBDA size :
    Bind(consume(size.p, "Expected ']' after array declaration", {"RIGHT_INDEX"}), LAMBDA c :
    Ok(c.p, [type |-> "ListType", primitive |-> "LIST", is_const |-> is_const,
             is_ref |-> is_ref, contained |-> contained.node, size |-> size.node])))))

\* while (peek().type != RIGHT_BRACE) { types.emplace_back(type()); match(COMMA); }
RECURSIVE TupleTypes(_, _, _)
TupleTypes(p, types, lex) ==
    IF peek(p).type # "RIGHT_BRACE"
    THEN Bind(type(p, lex), LAMBDA t :
         Bind(match(t.p, {"COMMA"}), LAMBDA m :
         TupleTypes(m.p, Append(types, t.node), lex)))
    ELSE Ok(p, [type |-> "types", types |-> types])

tuple_type(p, is_const, is_ref, lex) ==
    Bind(TupleTypes(p, << >>, lex), LAMBDA types :
    Bind(consume(types.p, "Expected '}' after tuple type", {"RIGHT_BRACE"}), LAMBDA c :
    Ok(c.p, [type |-> "TupleType", primitive |-> "TUPLE", is_const |-> is_const,
             is_ref |-> is_ref, types |-> types.node.types])))

\* the token kinds type() matches, and the Type each one stands for
TypeOf(tokentype) ==
    CASE tokentype = "BOOL" -> "BOOL"
      [] tokentype = "INT" -> "INT"
      [] tokentype = "FLOAT" -> "FLOAT"
      [] tokentype = "STRING" -> "STRING"
      [] tokentype = "IDENTIFIER" -> "CLASS"
      [] tokentype = "LEFT_INDEX" -> "LIST"
      [] tokentype = "TYPEOF" -> "TYPEOF"
      [] tokentype = "NULL_" -> "NULL_"
      [] tokentype = "LEFT_BRACE" -> "TUPLE"

\* type() after the token that names the type
TypeNamed(p, t, is_const, is_ref, lex) ==
    CASE t = "CLASS" ->
             Ok(p, [type |-> "UserDefinedType", primitive |-> t, is_const |-> is_const,
                    is_ref |-> is_ref, name |-> previous(p)])
      [] t = "LIST" -> list_type(p, is_const, is_ref, lex)
      [] t = "TUPLE" -> tuple_type(p, is_const, is_ref, lex)
      [] t = "TYPEOF" ->
             Bind(parse_precedence(p, Prec.LOGIC_OR, lex), LAMBDA e :
             Ok(e.p, [type |-> "TypeofType", primitive |-> t, is_const |-> is_const,
                      is_ref |-> is_ref, expr |-> e.node]))
      [] OTHER ->
             Ok(p, [type |-> "PrimitiveType", primitive |-> t, is_const |-> is_const,
                    is_ref |-> is_ref])

type(p, lex) ==
    Bind(match(p, {"CONST"}), LAMBDA mc :
    Bind(match(mc.p, {"REF"}), LAMBDA mr :
    Bind(match(mr.p, {"BOOL", "INT", "FLOAT", "STRING", "IDENTIFIER", "LEFT_INDEX",
                      "TYPEOF", "NULL_", "LEFT_BRACE"}), LAMBDA m :
    IF ~m.flag THEN Throw(Error(mr.p, "Unexpected token in type specifier"))
    ELSE TypeNamed(m.p, TypeOf(previous(m.p).type), mc.flag, mr.flag, lex))))

\* ------------------------------------------------------- the statements
Terminators == {"SEMICOLON", "END_OF_LINE"}

VariableKeywords == {"VAR", "CONST", "REF"}

\* while (peek().type == END_OF_LINE) { advance(); }
RECURSIVE SkipEndOfLines(_)
SkipEndOfLines(p) ==
    IF peek(p).type = "END_OF_LINE"
    THEN Bind(advance(p), LAMBDA a : SkipEndOfLines(a.p))
    ELSE Ok(p, Null)

type_declaration(p, lex) ==
    Bind(consume(p, "Expected type name after 'type' keyword", {"IDENTIFIER"}), LAMBDA c1 :
    Bind(consume(c1.p, "Expected '=' after type name", {"EQUAL"}), LAMBDA c2 :
    Bind(type(c2.p, lex), LAMBDA aliased :
    Bind(consume(aliased.p, "Expected ';' or newline after type alias", Terminators),
         LAMBDA c3 :
    Ok(c3.p, [type |-> "TypeStmt", name |-> previous(c1.p), aliased |-> aliased.node])))))

\* the message of variable_declaration's first consume
VariableNameMessage(keyword) ==
    CASE keyword.type = "VAR" -> "Expected variable name after 'var' keyword"
      [] keyword.type = "CONST" -> "Expected variable name after 'const' keyword"
      [] keyword.type = "REF" -> "Expected variable name after 'ref' keyword"
      [] OTHER -> "Expected variable name after '' keyword"

variable_declaration(p, lex) ==
    Bind(consume(p, VariableNameMessage(previous(p)), {"IDENTIFIER"}), LAMBDA c1 :
    Bind(match(c1.p, {"COLON"}), LAMBDA mt :
    Bind(IF mt.flag THEN type(mt.p, lex) ELSE Ok(mt.p, Null), LAMBDA var_type :
    Bind(match(var_type.p, {"EQUAL"}), LAMBDA me :
    Bind(IF me.flag THEN expression(me.p, lex) ELSE Ok(me.p, Null), LAMBDA initializer :
    Bind(consume(initializer.p, "Expected ';' or newline after variable initializer",
                 Terminators), LAMBDA c2 :
    Ok(c2.p, [type |-> "VarStmt", keyword |-> previous(p), name |-> previous(c1.p),
              var_type |-> var_type.node, initializer |-> initializer.node])))))))

single_token_statement(p, keyword_name, condition, error_message, Allocated, lex) ==
    IF ~condition
    THEN Throw(Logged(Error(p, error_message), "error", keyword_name, lex))
    ELSE Bind(consume(p, CASE keyword_name = "break" ->
                                  "Expected ';' or newline after break keyword"
                           [] keyword_name = "continue" ->
                                  "Expected ';' or newline after continue keyword",
                      Terminators), LAMBDA c :
         Ok(Logged(c.p, "node", keyword_name, lex),
            [type |-> Allocated, keyword |-> previous(p)]))

break_statement(p, lex) ==
    single_token_statement(p, "break", p.in_loop \/ p.in_switch,
                           "Cannot use 'break' outside a loop or switch.", "Break", lex)

continue_statement(p, lex) ==
    single_token_statement(p, "continue", p.in_loop,
                           "Cannot use 'continue' outside a loop", "Continue", lex)

expression_statement(p, lex) ==
    Bind(expression(p, lex), LAMBDA expr :
    Bind(consume(expr.p, "Expected ';' or newline after expression", Terminators),
         LAMBDA c : Ok(c.p, [type |-> "ExpressionStmt", expr |-> expr.node])))

return_statement(p, lex) ==
    IF ~p.in_function
    THEN Throw(Logged(Error(p, "Cannot use 'return' keyword outside a function"),
                      "error", "return", lex))
    ELSE Bind(IF peek(p).type \notin Terminators THEN expression(p, lex) ELSE Ok(p, Null),
              LAMBDA return_value :
         Bind(consume(return_value.p, "Expected ';' or newline after return statement",
                      Terminators), LAMBDA c :
         Ok(Logged(c.p, "node", "return", lex),
            [type |-> "Return", keyword |-> previous(p), value |-> return_value.node])))

RECURSIVE statement(_, _)

\* while (not is_at_end() && peek().type != RIGHT_BRACE) { ... }
RECURSIVE BlockStatements(_, _, _)
BlockStatements(p, statements_, lex) ==
    IF ~is_at_end(p) /\ peek(p).type # "RIGHT_BRACE"
    THEN Bind(match(p, VariableKeywords), LAMBDA m :
         Bind(IF m.flag THEN variable_declaration(m.p, lex) ELSE statement(m.p, lex),
              LAMBDA r : BlockStatements(r.p, Append(statements_, r.node), lex)))
    ELSE Ok(p, [type |-> "stmts", stmts |-> statements_])

block_statement(p, lex) ==
    ScopedIntegerManager_dtor(
        Bind(BlockStatements(ScopedIntegerManager(p), << >>, lex), LAMBDA body :
        Bind(consume(body.p, "Expected '}' after block", {"RIGHT_BRACE"}), LAMBDA c :
        Ok(c.p, [type |-> "Block", stmts |-> body.node.stmts]))))

\* for_statement with the step appended to the body block
ForBody_StepInBody(p, keyword, initializer, condition, increment, lex) ==
    ScopedBooleanManager_dtor(
        Bind(consume(ScopedBooleanManager(p, "in_loop"),
                     "Expected '{' after for-loop header", {"LEFT_BRACE"}), LAMBDA c :
        Bind(block_statement(c.p, [lex EXCEPT !.loop = TRUE]), LAMBDA body :
        Ok(body.p, [type |-> "Block",
                    stmts |-> << initializer,
                                 [type |-> "While", keyword |-> keyword,
                                  condition |-> condition,
                                  body |-> [body.node EXCEPT !.stmts =
                                               IF increment = Null THEN @
                                               ELSE Append(@, increment)],
                                  increment |-> Null] >>]))),
        "in_loop", p.in_loop)

\* for_statement after the header: in_loop is set, then '{' and the body
ForBody(p, keyword, initializer, condition, increment, lex) ==
    ScopedBooleanManager_dtor(
        Bind(consume(ScopedBooleanManager(p, "in_loop"),
                     "Expected '{' after for-loop header", {"LEFT_BRACE"}), LAMBDA c :
        Bind(block_statement(c.p, [lex EXCEPT !.loop = TRUE]), LAMBDA body :
        Ok(body.p, [type |-> "Block",
                    stmts |-> << initializer,
                                 [type |-> "While", keyword |-> keyword,
                                  condition |-> condition, body |-> body.node,
                                  increment |-> increment] >>]))),
        "in_loop", p.in_loop)

\* the initializer of a for loop: a variable declaration, nothing before
\* the ';', or an expression statement
ForInitializer(p, lex) ==
    Bind(match(p, VariableKeywords), LAMBDA mv :
    IF mv.flag THEN variable_declaration(mv.p, lex)
    ELSE Bind(match(mv.p, {"SEMICOLON"}), LAMBDA ms :
         IF ~ms.flag THEN expression_statement(ms.p, lex) ELSE Ok(ms.p, Null)))

\* for_statement between '(' and the body, inside the scope_depth guard
ForHeader(p, keyword, lex) ==
    Bind(ForInitializer(p, lex), LAMBDA initializer :
    Bind(IF peek(initializer.p).type # "SEMICOLON" THEN expression(initializer.p, lex)
         ELSE Ok(initializer.p, Null), LAMBDA condition :
    Bind(consume(condition.p, "Expected ';' after loop condition", {"SEMICOLON"}),
         LAMBDA c1 :
    Bind(IF peek(c1.p).type # "RIGHT_PAREN"
         THEN Bind(expression(c1.p, lex), LAMBDA e :
              Ok(e.p, [type |-> "ExpressionStmt", expr |-> e.node]))
         ELSE Ok(c1.p, Null), LAMBDA increment :
    Bind(consume(increment.p, "Expected ')' after for loop header", {"RIGHT_PAREN"}),
         LAMBDA c2 :
    Bind(SkipEndOfLines(c2.p), LAMBDA k :
    ForBody(k.p, keyword, initializer.node, condition.node, increment.node, lex)))))))

for_statement(p, lex) ==
    Bind(consume(p, "Expected '(' after 'for' keyword", {"LEFT_PAREN"}), LAMBDA c :
    ScopedIntegerManager_dtor(ForHeader(ScopedIntegerManager(c.p), previous(p), lex)))

RECURSIVE if_statement(_, _)
if_statement(p, lex) ==
    Bind(expression(p, lex), LAMBDA condition :
    Bind(SkipEndOfLines(condition.p), LAMBDA k :
    Bind(consume(k.p, "Expected '{' after if statement condition", {"LEFT_BRACE"}),
         LAMBDA c :
    Bind(block_statement(c.p, lex), LAMBDA then_branch :
    Bind(match(then_branch.p, {"ELSE"}), LAMBDA me :
    IF ~me.flag
    THEN Ok(me.p, [type |-> "If", keyword |-> previous(p), condition |-> condition.node,
                   then_branch |-> then_branch.node, else_branch |-> Null])
    ELSE Bind(Bind(match(me.p, {"IF"}), LAMBDA mi :
              IF mi.flag THEN if_statement(mi.p, lex)
              ELSE Bind(consume(mi.p, "Expected '{' after else keyword", {"LEFT_BRACE"}),
                        LAMBDA cb : block_statement(cb.p, lex))), LAMBDA else_branch :
         Ok(else_branch.p, [type |-> "If", keyword |-> previous(p),
                            condition |-> condition.node,
                            then_branch |-> then_branch.node,
                            else_branch |-> else_branch.node])))))))

\* while (not is_at_end() && peek().type != RIGHT_BRACE) { default or case }
RECURSIVE SwitchCases(_, _, _, _)
SwitchCases(p, cases, default_case, lex) ==
    IF ~is_at_end(p) /\ peek(p).type # "RIGHT_BRACE"
    THEN Bind(match(p, {"DEFAULT"}), LAMBDA md :
         IF md.flag
         THEN IF default_case # Null
              THEN Throw(Error(md.p, "Cannot have more than one default case in a switch"))
              ELSE Bind(consume(md.p, "Expected '->' after 'default'", {"ARROW"}), LAMBDA c :
                   Bind(statement(c.p, lex), LAMBDA stmt :
                   SwitchCases(stmt.p, cases, stmt.node, lex)))
         ELSE Bind(expression(md.p, lex), LAMBDA expr :
              Bind(consume(expr.p, "Expected '->' after case expression", {"ARROW"}),
                   LAMBDA c :
              Bind(statement(c.p, lex), LAMBDA stmt :
              SwitchCases(stmt.p, Append(cases, <<expr.node, stmt.node>>),
                          default_case, lex)))))
    ELSE Ok(p, [type |-> "cases", cases |-> cases, default_case |-> default_case])

\* switch_statement after '{', under the in_switch guard
SwitchBody(p, condition, lex) ==
    ScopedBooleanManager_dtor(
        Bind(SwitchCases(ScopedBooleanManager(p, "in_switch"), << >>, Null,
                         [lex EXCEPT !.switch = TRUE]), LAMBDA body :
        Bind(consume(body.p, "Expected '}' at the end of switch statement", {"RIGHT_BRACE"}),
             LAMBDA c :
        Ok(c.p, [type |-> "Switch", condition |-> condition, cases |-> body.node.cases,
                 default_case |-> body.node.default_case]))),
        "in_switch", p.in_switch)

switch_statement(p, lex) ==
    Bind(expression(p, lex), LAMBDA condition :
    Bind(SkipEndOfLines(condition.p), LAMBDA k :
    Bind(consume(k.p, "Expected '{' after switch statement condition", {"LEFT_BRACE"}),
         LAMBDA c : SwitchBody(c.p, condition.node, lex))))

\* while_statement after the header: in_loop is set, then '{' and the body
WhileBody(p, keyword, condition, lex) ==
    ScopedBooleanManager_dtor(
        Bind(consume(ScopedBooleanManager(p, "in_loop"),
                     "Expected '{' after while-loop header", {"LEFT_BRACE"}), LAMBDA c :
        Bind(block_statement(c.p, [lex EXCEPT !.loop = TRUE]), LAMBDA body :
        Ok(body.p, [type |-> "While", keyword |-> keyword, condition |-> condition,
                    body |-> body.node, increment |-> Null]))),
        "in_loop", p.in_loop)

while_statement(p, lex) ==
    Bind(expression(p, lex), LAMBDA condition :
    Bind(SkipEndOfLines(condition.p), LAMBDA k :
    WhileBody(k.p, previous(p), condition.node, lex)))

\* statement() after the keyword it matched
StatementOf(t, p, lex) ==
    CASE t = "LEFT_BRACE" -> block_statement(p, lex)
      [] t = "BREAK" -> break_statement(p, lex)
      [] t = "CONTINUE" -> continue_statement(p, lex)
      [] t = "FOR" -> for_statement(p, lex)
      [] t = "IF" -> if_statement(p, lex)
      [] t = "RETURN" -> return_statement(p, lex)
      [] t = "SWITCH" -> switch_statement(p, lex)
      [] t = "WHILE" -> while_statement(p, lex)

statement(p, lex) ==
    Bind(match(p, {"LEFT_BRACE", "BREAK", "CONTINUE", "FOR", "IF", "RETURN", "SWITCH",
                   "WHILE"}), LAMBDA m :
    IF ~m.flag THEN expression_statement(m.p, lex)
    ELSE StatementOf(previous(m.p).type, m.p, lex))

\* ------------------------------------------------------- error recovery
SynchronizeBefore ==
    {"BREAK", "CONTINUE", "CLASS", "FN", "FOR", "IF", "IMPORT", "PRIVATE", "PROTECTED",
     "PUBLIC", "RETURN", "TYPE", "CONST", "VAR", "WHILE"}

\* while (not is_at_end()) { ... advance(); }
RECURSIVE SynchronizeLoop(_)
SynchronizeLoop(p) ==
    IF is_at_end(p) THEN Ok(p, Null)
    ELSE IF previous(p).type \in {"SEMICOLON", "END_OF_LINE", "RIGHT_BRACE"} THEN Ok(p, Null)
    ELSE IF peek(p).type \in SynchronizeBefore THEN Ok(p, Null)
    ELSE Bind(advance(p), LAMBDA a : SynchronizeLoop(a.p))

\* synchronize(); a call that returns is recorded in `syncs` (not part of the
\* program) with the cursor it was entered at and the cursor it left.
synchronize(p) ==
    Bind(advance(p), LAMBDA a :
    Bind(SynchronizeLoop(a.p), LAMBDA s :
    Ok([s.p EXCEPT !.syncs = Append(@, [from |-> p.current, to |-> s.p.current])],
       Null)))

\* ----------------------------------------------------- the declarations
\* Token::operator==: two tokens are equal when their kinds and their
\* lexemes are, wherever they stand in the source.
TokenEquals(a, b) == a.type = b.type /\ a.lexeme = b.lexeme

\* std::map<std::string_view, T>: find, and operator[] assignment
Has(map, key) == \E e \in map : e.key = key

Put(map, key, node) == {e \in map : e.key # key} \cup {[key |-> key, node |-> node]}

\* The parameter name advance() took: any token.  A contextual keyword
\* taken this way is recorded.
ParameterNamed(p, lex) ==
    IF previous(p).type \in DOMAIN ContextualKeyword
    THEN Logged(p, "name", ContextualKeyword[previous(p).type], lex)
    ELSE p

\* do { advance(); consume(COLON); type(); } while (match(COMMA));
RECURSIVE Parameters(_, _, _)
Parameters(p, params, lex) ==
    Bind(advance(p), LAMBDA a :
    Bind(consume(ParameterNamed(a.p, lex), "Expected ':' after function parameter name",
                 {"COLON"}), LAMBDA c :
    Bind(type(c.p, lex), LAMBDA parameter_type :
    Bind(match(parameter_type.p, {"COMMA"}), LAMBDA m :
    IF m.flag
    THEN Parameters(m.p, Append(params, <<previous(a.p), parameter_type.node>>), lex)
    ELSE Ok(m.p, [type |-> "params",
                  params |-> Append(params, <<previous(a.p), parameter_type.node>>)])))))

\* function_declaration after '{': the body under the in_function guard
FunctionBody(p, name, return_type, params, lex) ==
    ScopedBooleanManager_dtor(
        Bind(block_statement(ScopedBooleanManager(p, "in_function"),
                             [lex EXCEPT !.function = TRUE]), LAMBDA body :
        Ok(body.p, [type |-> "Function", name |-> name, return_type |-> return_type,
                    params |-> params, body |-> body.node])),
        "in_function", p.in_function)

\* function_declaration from the parameters to the body, inside the
\* scope_depth guard
FunctionSignature(p, name, lex) ==
    Bind(IF peek(p).type # "RIGHT_PAREN" THEN Parameters(p, << >>, lex)
         ELSE Ok(p, [type |-> "params", params |-> << >>]), LAMBDA params :
    Bind(consume(params.p, "Expected ')' after function parameters", {"RIGHT_PAREN"}),
         LAMBDA c1 :
    Bind(SkipEndOfLines(c1.p), LAMBDA k :
    Bind(consume(k.p, "Expected '->' after ')' to specify type", {"ARROW"}), LAMBDA c2 :
    Bind(type(c2.p, lex), LAMBDA return_type :
    Bind(consume(return_type.p, "Expected '{' after function return type", {"LEFT_BRACE"}),
         LAMBDA c3 :
    FunctionBody(c3.p, name, return_type.node, params.node.params, lex)))))))

function_declaration(p, lex) ==
    Bind(consume(p, "Expected function name after 'fn' keyword", {"IDENTIFIER"}), LAMBDA c1 :
    IF ~c1.p.in_class /\ Has(c1.p.functions, previous(c1.p).lexeme)
    THEN Throw(Error(c1.p, "Function already defined"))
    ELSE IF c1.p.in_class
            /\ \E i \in 1..Len(c1.p.current_methods.methods) :
                   TokenEquals(c1.p.current_methods.methods[i].method.name,
                               previous(c1.p))
    THEN Throw(Error(c1.p, "Method already defined"))
    ELSE Bind(consume(c1.p, "Expected '(' after function name", {"LEFT_PAREN"}), LAMBDA c2 :
         Bind(ScopedIntegerManager_dtor(
                  FunctionSignature(ScopedIntegerManager(c2.p), previous(c1.p), lex)),
              LAMBDA r :
         IF ~r.p.in_class /\ r.p.scope_depth = 0
         THEN Ok([r.p EXCEPT !.functions = Put(@, r.node.name.lexeme, r.node)], r.node)
         ELSE r)))

\* import_statement on a token stream whose source tree holds no other
\* file: the path and the terminator are consumed and the module cannot be
\* opened.  Part I models the other outcomes.
import_statement(p, lex) ==
    Bind(consume(p, "Expected path to module after 'import' keyword", {"STRING_VALUE"}),
         LAMBDA c1 :
    Bind(consume(c1.p, "Expected ';' or newline after imported file", Terminators),
         LAMBDA c2 : Ok(Error(c2.p, "Unable to open module"), Null)))

\* A method once function_declaration() has returned it in f: it becomes
\* the destructor, the constructor or a plain method and is appended through
\* current_methods, which points at methods.  The result's node carries the
\* constructor and destructor pointers (indices into methods, 0 for nullptr).
MethodDeclared(f, name, ctor, dtor, visibility, found_dtor, is_dtor, is_ctor) ==
    IF f.node.name.lexeme = name.lexeme /\ ~is_dtor /\ ~is_ctor
    THEN Throw(Error(f.p, "Cannot declare constructors or destructors more than once"))
    ELSE Ok([f.p EXCEPT !.current_methods.methods =
                 Append(@, [method |-> IF is_dtor
                                       THEN [f.node EXCEPT !.name.lexeme = <<"~">> \o @]
                                       ELSE f.node,
                            visibility |-> visibility,
                            tilde |-> found_dtor])],
            [type |-> "pointers",
             ctor |-> IF is_ctor THEN Len(f.p.current_methods.methods) + 1 ELSE ctor,
             dtor |-> IF is_dtor THEN Len(f.p.current_methods.methods) + 1 ELSE dtor])

\* The body of the try block of a method.
Method(p, name, ctor, dtor, visibility, lex) ==
    Bind(match(p, {"BIT_NOT"}), LAMBDA md :
    IF md.flag /\ peek(md.p).lexeme # name.lexeme
    THEN Bind(advance(md.p), LAMBDA adv :
         Throw(Error(adv.p,
               "The name of the destructor has to be the same as the name of the class")))
    ELSE Bind(function_declaration(md.p, lex), LAMBDA f :
         MethodDeclared(f, name, ctor, dtor, visibility, md.flag,
                        f.node.name.lexeme = name.lexeme /\ md.flag /\ dtor = 0,
                        f.node.name.lexeme = name.lexeme /\ ~(md.flag /\ dtor = 0)
                            /\ ctor = 0)))

AllExceptions == {"ParseException", "std::out_of_range"}

\* One turn of the loop over a class's body, after the visibility: the
\* member or method parsed inside try { } catch (...) { synchronize(); }.
\* The result's node is what the turn leaves in ctor, dtor and members.
ClassMember(p, name, ctor, dtor, members, visibility, lex) ==
    Bind(match(p, VariableKeywords), LAMBDA mv :
    IF mv.flag
    THEN Catch(Bind(variable_declaration(mv.p, lex), LAMBDA member :
               Ok(member.p, [type |-> "class", ctor |-> ctor, dtor |-> dtor,
                             members |-> Append(members, <<member.node, visibility>>)])),
               AllExceptions,
               LAMBDA e : Bind(synchronize(e.p), LAMBDA s :
                          Ok(s.p, [type |-> "class", ctor |-> ctor, dtor |-> dtor,
                                   members |-> members])))
    ELSE Bind(match(mv.p, {"FN"}), LAMBDA mf :
         IF ~mf.flag
         THEN Throw(Error(mf.p, "Expected either member or method declaration in class"))
         ELSE Catch(Bind(Method(mf.p, name, ctor, dtor, visibility, lex), LAMBDA method :
                    Ok(method.p, [type |-> "class", ctor |-> method.node.ctor,
                                  dtor |-> method.node.dtor, members |-> members])),
                    AllExceptions,
                    LAMBDA e : Bind(synchronize(e.p), LAMBDA s :
                               Ok(s.p, [type |-> "class", ctor |-> ctor, dtor |-> dtor,
                                        members |-> members])))))

\* while (not is_at_end() && peek().type != RIGHT_BRACE) { one member or method }
RECURSIVE ClassMembers(_, _, _, _, _, _)
ClassMembers(p, name, ctor, dtor, members, lex) ==
    IF ~is_at_end(p) /\ peek(p).type # "RIGHT_BRACE"
    THEN Bind(consume(p, "Expected 'public', 'private' or 'protected' modifier before member declaration",
                      {"PRIVATE", "PUBLIC", "PROTECTED"}), LAMBDA c :
         Bind(ClassMember(c.p, name, ctor, dtor, members, previous(c.p).type, lex),
              LAMBDA turn :
         ClassMembers(turn.p, name, turn.node.ctor, turn.node.dtor, turn.node.members, lex)))
    ELSE Ok(p, [type |-> "class", ctor |-> ctor, dtor |-> dtor, members |-> members])

\* The ClassStmt allocated once the body is closed.
ClassDefinition(name, body, methods) ==
    [type |-> "Class", name |-> name, ctor |-> body.ctor, dtor |-> body.dtor,
     members |-> body.members, methods |-> methods]

\* class_declaration after '{', under the in_class guard
ClassBody(p, name, lex) ==
    ScopedBooleanManager_dtor(
        Bind(ClassMembers(ScopedBooleanManager(p, "in_class"), name, 0, 0, << >>,
                          [lex EXCEPT !.class = TRUE]), LAMBDA body :
        Bind(consume(body.p, "Expected '}' at the end of class declaration", {"RIGHT_BRACE"}),
             LAMBDA c :
        Ok([c.p EXCEPT !.classes =
                Put(@, name.lexeme,
                    ClassDefinition(name, body.node, c.p.current_methods.methods))],
           ClassDefinition(name, body.node, c.p.current_methods.methods)))),
        "in_class", p.in_class)

class_declaration(p, lex) ==
    Bind(consume(p, "Expected class name after 'class' keyword", {"IDENTIFIER"}), LAMBDA c1 :
    IF Has(c1.p.classes, previous(c1.p).lexeme)
    THEN Throw(Error(c1.p, "Class already defined"))
    ELSE ScopedPointerManager_dtor(
             Bind(consume([c1.p EXCEPT !.current_methods =
                               [null |-> FALSE, methods |-> << >>]],
                          "Expected '{' after class name", {"LEFT_BRACE"}), LAMBDA c2 :
             ClassBody(c2.p, previous(c1.p), lex)),
             c1.p.current_methods))

\* declaration() after the keyword it matched
DeclarationOf(t, p) ==
    CASE t = "CLASS" -> class_declaration(p, TopLevel)
      [] t = "FN" -> function_declaration(p, TopLevel)
      [] t = "IMPORT" -> import_statement(p, TopLevel)
      [] t = "TYPE" -> type_declaration(p, TopLevel)
      [] OTHER -> variable_declaration(p, TopLevel)

declaration(p) ==
    Catch(Bind(match(p, {"CLASS", "FN", "IMPORT", "TYPE"} \cup VariableKeywords), LAMBDA m :
          IF ~m.flag THEN statement(m.p, TopLevel)
          ELSE DeclarationOf(previous(m.p).type, m.p)),
          {"ParseException"},
          \* catch (const ParseException &) { synchronize(); return {nullptr}; }
          LAMBDA e : Bind(synchronize(e.p), LAMBDA s : Ok(s.p, Null)))

\* ------------------------------------------------------------ program()
\* What a read of tokens[tokens.size()] may yield.  The read is past the end
\* of the vector, so any token can come back; these three take the parser
\* down its different paths.  Unread stands for the memory not yet looked at.
Unread == Tok("NONE", << >>)

BeyondTokens ==
    { Tok("END_OF_FILE", << >>), Tok("RIGHT_BRACE", <<"}">>), Tok("IDENTIFIER", <<"x">>) }

\* The Parser as constructed.
NewParserState ==
    [ current |-> 0, in_class |-> FALSE, in_function |-> FALSE, in_loop |-> FALSE,
      in_switch |-> FALSE, scope_depth |-> 0, current_methods |-> NullMethods,
      classes |-> {}, functions |-> {}, errors |-> << >>, log |-> << >>,
      syncs |-> << >>, beyond |-> Unread ]

\* The values a read past the end can yield in a step from p, given the
\* cursor the step ends at when such a read yields END_OF_FILE: the value
\* already seen; or any value when the cursor gets to tokens.size() in this
\* step; or none (one stand-in) when it does not, since no read is past the
\* end before that.
Beyond(p, end) ==
    IF p.beyond # Unread THEN {p.beyond}
    ELSE IF end < Len(tokens) THEN {Unread}
    ELSE BeyondTokens

EndOfFileBeyond(p) == [p EXCEPT !.beyond = Tok("END_OF_FILE", << >>)]

\* One turn of program()'s loop:
\*   while (peek() is neither END_OF_FILE nor END_OF_LINE)
\*       statements.emplace_back(declaration());
\* An exception that leaves declaration() leaves program().
Declaration ==
    /\ pstatus = "parsing"
    /\ peek(parser).type \notin {"END_OF_FILE", "END_OF_LINE"}
    /\ \E b \in Beyond(parser, declaration(EndOfFileBeyond(parser)).p.current) :
       \E r \in {declaration([parser EXCEPT !.beyond = b])} :
          /\ parser' = r.p
          /\ IF r.exc = "none"
             THEN /\ statements' = Append(statements, r.node)
                  /\ pstatus' = "parsing"
             ELSE /\ statements' = statements
                  /\ pstatus' = "threw"
    /\ UNCHANGED <<vars, tokens, first>>

\* The end of program(): the optional END_OF_LINE, then END_OF_FILE.
EndOfProgram(p) ==
    Bind(IF peek(p).type = "END_OF_LINE" THEN advance(p) ELSE Ok(p, Null), LAMBDA a :
    consume(a.p, "Expected EOF at the end of file", {"END_OF_FILE"}))

ProgramEnd ==
    /\ pstatus = "parsing"
    /\ peek(parser).type \in {"END_OF_FILE", "END_OF_LINE"}
    /\ \E b \in Beyond(parser, EndOfProgram(EndOfFileBeyond(parser)).p.current) :
       \E r \in {EndOfProgram([parser EXCEPT !.beyond = b])} :
          /\ parser' = r.p
          /\ pstatus' = IF r.exc = "none" THEN "returned" ELSE "threw"
    /\ UNCHANGED <<vars, tokens, statements, first>>

\* A second Parser constructed on the same tokens and the same Module once
\* program() is over: the cursor, the flags and the diagnostics start anew,
\* the module's classes and functions are as the first run left them.
ParseAgain ==
    /\ pstatus \in {"returned", "threw"}
    /\ first.pstatus = "none"
    /\ first' = [pstatus |-> pstatus, statements |-> statements,
                 errors |-> parser.errors]
    /\ parser' = [NewParserState EXCEPT !.classes = parser.classes,
                                        !.functions = parser.functions]
    /\ statements' = << >>
    /\ pstatus' = "parsing"
    /\ UNCHANGED <<vars, tokens>>

\* ------------------------------------------------------ the token streams
T(kind, text) == Tok(kind, <<text>>)

\* The pieces the token streams are made of: the openers of a class, a
\* method, a function, the two loops and a switch case, a function with a
\* keyword where its parameter's name goes, the closing brace, the five
\* contextual keywords as statements, and a token that no expression starts
\* with, followed by the ';' synchronize() stops after.
Fragments ==
    { << T("CLASS", "class"), T("IDENTIFIER", "C"), T("LEFT_BRACE", "{") >>,
      << T("PUBLIC", "public"), T("FN", "fn"), T("IDENTIFIER", "m"), T("LEFT_PAREN", "("),
         T("RIGHT_PAREN", ")"), T("ARROW", "->"), T("INT", "int"), T("LEFT_BRACE", "{") >>,
      << T("FN", "fn"), T("IDENTIFIER", "f"), T("LEFT_PAREN", "("), T("RIGHT_PAREN", ")"),
         T("ARROW", "->"), T("INT", "int"), T("LEFT_BRACE", "{") >>,
      << T("WHILE", "while"), T("IDENTIFIER", "x"), T("LEFT_BRACE", "{") >>,
      << T("FOR", "for"), T("LEFT_PAREN", "("), T("SEMICOLON", ";"), T("SEMICOLON", ";"),
         T("RIGHT_PAREN", ")"), T("LEFT_BRACE", "{") >>,
      << T("SWITCH", "switch"), T("IDENTIFIER", "x"), T("LEFT_BRACE", "{"),
         T("INT_VALUE", "1"), T("ARROW", "->") >>,
      << T("RIGHT_BRACE", "}") >>,
      << T("FN", "fn"), T("IDENTIFIER", "g"), T("LEFT_PAREN", "("), T("BREAK", "break"),
         T("COLON", ":"), T("INT", "int"), T("RIGHT_PAREN", ")"), T("ARROW", "->"),
         T("INT", "int"), T("LEFT_BRACE", "{") >>,
      << T("BREAK", "break"), T("SEMICOLON", ";"), T("CONTINUE", "continue"),
         T("SEMICOLON", ";"), T("RETURN", "return"), T("SEMICOLON", ";") >>,
      << T("THIS", "this"), T("SEMICOLON", ";"),
         T("SUPER", "super"), T("DOT", "."), T("IDENTIFIER", "x"), T("SEMICOLON", ";") >>,
      << T("RIGHT_PAREN", ")"), T("SEMICOLON", ";") >> }

RECURSIVE Flatten(_)
Flatten(pieces) ==
    IF pieces = << >> THEN << >> ELSE Head(pieces) \o Flatten(Tail(pieces))

\* Every stream of at most MaxFrags pieces, END_OF_FILE last.
TokenStreams ==
    { Flatten(pieces) \o << Tok("END_OF_FILE", << >>) >> :
          pieces \in UNION { [1..n -> Fragments] : n \in 0..MaxFrags } }

InitParse ==
    /\ tokens \in TokenStreams
    /\ parser = NewParserState
    /\ statements = << >>
    /\ pstatus = "parsing"
    /\ first = [pstatus |-> "none"]
    /\ tree = [strings |-> {}, files |-> {}, fresh |-> << >>]
    /\ files = << >>
    /\ parsed_modules = << >>
    /\ stack = << >>
    /\ logger = [source |-> << >>, module_name |-> "", errors |-> 0]
    /\ scans = << >>
    /\ status = "idle"
    /\ last = [op |-> "none", self |-> FALSE,
               entry |-> [source |-> << >>, module_name |-> ""]]

NextParse ==
    \/ Declaration
    \/ ProgramEnd

SpecParse == InitParse /\ [][NextParse]_allvars

\* ------------------------------------------------- the statement streams
\* The prefix operators and the two-operand infix operators of the rule
\* table, and the assignment operators, as tokens.
UnaryOperators ==
    { T("MINUS", "-"), T("PLUS", "+"), T("NOT", "!"), T("BIT_NOT", "~"),
      T("PLUS_PLUS", "++"), T("MINUS_MINUS", "--") }

BinaryOperators ==
    { T("PLUS", "+"), T("MINUS", "-"), T("STAR", "*"), T("SLASH", "/"), T("MODULO", "%"),
      T("EQUAL_EQUAL", "=="), T("NOT_EQUAL", "!="), T("GREATER", ">"),
      T("GREATER_EQUAL", ">="), T("LESS", "<"), T("LESS_EQUAL", "<="),
      T("RIGHT_SHIFT", ">>"), T("LEFT_SHIFT", "<<"), T("DOT_DOT", ".."),
      T("DOT_DOT_EQUAL", "..="), T("BIT_AND", "&"), T("BIT_OR", "|"), T("BIT_XOR", "^"),
      T("AND", "and"), T("OR", "or") }

AssignmentTokens ==
    { T("EQUAL", "="), T("PLUS_EQUAL", "+="), T("MINUS_EQUAL", "-="),
      T("STAR_EQUAL", "*="), T("SLASH_EQUAL", "/=") }

\* Expressions that are no variable, member access or index expression.
NonAssignable ==
    { << T("INT_VALUE", "1"), T("PLUS", "+"), T("INT_VALUE", "2") >>,
      << T("IDENTIFIER", "a"), T("STAR", "*"), T("IDENTIFIER", "b") >>,
      << T("MINUS", "-"), T("IDENTIFIER", "a") >>,
      << T("NOT", "!"), T("IDENTIFIER", "a") >>,
      << T("LEFT_PAREN", "("), T("IDENTIFIER", "a"), T("RIGHT_PAREN", ")") >>,
      << T("IDENTIFIER", "a"), T("LEFT_PAREN", "("), T("RIGHT_PAREN", ")") >>,
      << T("IDENTIFIER", "a"), T("QUESTION", "?"), T("IDENTIFIER", "b"), T("COLON", ":"),
         T("IDENTIFIER", "c") >>,
      << T("TRUE", "true") >> }

\* The integer and the fraction digits of the float literals, one character
\* per element.
FloatParts ==
    { << <<"2">>, <<"0">> >>, << <<"0">>, <<"1">> >>, << <<"1", "0">>, <<"2", "5">> >> }

\* Statements `e op 3;`, `u a op b;`, a literal alone, `a op b op c;`, and
\* member accesses `x.<float>` and
\* `1 + x.<float>` followed by the terminator or by an assignment.
ExpressionStatements ==
    LET AccessStatementRests ==
            { << T("SEMICOLON", ";") >> }
            \cup { << op, T("INT_VALUE", "3"), T("SEMICOLON", ";") >> :
                       op \in AssignmentTokens }
    IN
    { e \o << op, T("INT_VALUE", "3"), T("SEMICOLON", ";") >> :
          e \in NonAssignable, op \in AssignmentTokens }
    \cup { << u, T("IDENTIFIER", "a"), b, T("IDENTIFIER", "b"), T("SEMICOLON", ";") >> :
               u \in UnaryOperators, b \in BinaryOperators }
    \cup { << l, T("SEMICOLON", ";") >> :
               l \in { Tok("INT_VALUE", <<"4", "2">>), Tok("FLOAT_VALUE", <<"2", ".", "5">>),
                       T("STRING_VALUE", "s"), T("TRUE", "true"), T("FALSE", "false"),
                       T("NULL_", "null") } }
    \cup { << T("IDENTIFIER", "a"), b, T("IDENTIFIER", "b"), b, T("IDENTIFIER", "c"),
              T("SEMICOLON", ";") >> : b \in BinaryOperators }
    \cup { << T("IDENTIFIER", "x"), T("DOT", "."),
              Tok("FLOAT_VALUE", f[1] \o <<".">> \o f[2]) >> \o rest :
               f \in FloatParts, rest \in AccessStatementRests }
    \cup { << T("INT_VALUE", "1"), T("PLUS", "+"), T("IDENTIFIER", "x"), T("DOT", "."),
              Tok("FLOAT_VALUE", f[1] \o <<".">> \o f[2]) >> \o rest :
               f \in FloatParts, rest \in AccessStatementRests }

\* The pieces of the for loops: the initializer with its ';', the condition,
\* the step, and the body.
ForPieces ==
    [init |-> { << T("SEMICOLON", ";") >>,
                << T("VAR", "var"), T("IDENTIFIER", "i"), T("EQUAL", "="),
                   T("INT_VALUE", "0"), T("SEMICOLON", ";") >>,
                << T("IDENTIFIER", "i"), T("EQUAL", "="), T("INT_VALUE", "0"),
                   T("SEMICOLON", ";") >> },
     cond |-> { << >>, << T("IDENTIFIER", "i"), T("LESS", "<"), T("INT_VALUE", "9") >> },
     step |-> { << >>,
                << T("IDENTIFIER", "i"), T("PLUS_EQUAL", "+="), T("INT_VALUE", "1") >> },
     body |-> { << T("LEFT_BRACE", "{"), T("RIGHT_BRACE", "}") >>,
                << T("LEFT_BRACE", "{"), T("BREAK", "break"), T("SEMICOLON", ";"),
                   T("RIGHT_BRACE", "}") >>,
                << T("LEFT_BRACE", "{"), T("IDENTIFIER", "x"), T("SEMICOLON", ";"),
                   T("CONTINUE", "continue"), T("SEMICOLON", ";"),
                   T("RIGHT_BRACE", "}") >> }]

ForStatement(init, cond, step, body) ==
    << T("FOR", "for"), T("LEFT_PAREN", "(") >> \o init \o cond
        \o << T("SEMICOLON", ";") >> \o step \o << T("RIGHT_PAREN", ")") >> \o body

ForStatements ==
    { ForStatement(init, cond, step, body) :
          init \in ForPieces.init, cond \in ForPieces.cond,
          step \in ForPieces.step, body \in ForPieces.body }

\* A method of class C without parameters and with an empty body: named C
\* (a constructor), ~C (a destructor) or m.
MethodTokens(kind) ==
    << T("PUBLIC", "public"), T("FN", "fn") >>
        \o (IF kind = "~C" THEN << T("BIT_NOT", "~"), T("IDENTIFIER", "C") >>
            ELSE << T("IDENTIFIER", kind) >>)
        \o << T("LEFT_PAREN", "("), T("RIGHT_PAREN", ")"), T("ARROW", "->"),
              T("INT", "int"), T("LEFT_BRACE", "{"), T("RIGHT_BRACE", "}") >>

\* class C { the methods of the given kinds, in order }
ClassStatementOf(kinds) ==
    << T("CLASS", "class"), T("IDENTIFIER", "C"), T("LEFT_BRACE", "{") >>
        \o Flatten([i \in 1..Len(kinds) |-> MethodTokens(kinds[i])])
        \o << T("RIGHT_BRACE", "}") >>

MethodKinds == UNION { [1..n -> {"C", "~C", "m"}] : n \in 0..MaxMethods }

ClassStatements == { ClassStatementOf(kinds) : kinds \in MethodKinds }

SyntaxStatements == ExpressionStatements \cup ForStatements \cup ClassStatements

\* One statement, then nothing or the statement `x;`, then END_OF_FILE.
SyntaxStreams ==
    { s \o next \o << Tok("END_OF_FILE", << >>) >> :
          s \in SyntaxStatements,
          next \in { << >>, << T("IDENTIFIER", "x"), T("SEMICOLON", ";") >> } }

InitSyntax ==
    /\ tokens \in SyntaxStreams
    /\ parser = NewParserState
    /\ statements = << >>
    /\ pstatus = "parsing"
    /\ first = [pstatus |-> "none"]
    /\ tree = [strings |-> {}, files |-> {}, fresh |-> << >>]
    /\ files = << >>
    /\ parsed_modules = << >>
    /\ stack = << >>
    /\ logger = [source |-> << >>, module_name |-> "", errors |-> 0]
    /\ scans = << >>
    /\ status = "idle"
    /\ last = [op |-> "none", self |-> FALSE,
               entry |-> [source |-> << >>, module_name |-> ""]]

SpecSyntax == InitSyntax /\ [][NextParse]_allvars

\* The statement streams parsed twice.
SpecTwice == InitSyntax /\ [][NextParse \/ ParseAgain]_allvars

\* The tokens from the cursor on are those of s.
StatementAt(s) ==
    /\ parser.current + Len(s) <= Len(tokens)
    /\ SubSeq(tokens, parser.current + 1, parser.current + Len(s)) = s

\* ------------------------------------------------------------ the claims
Finished == {"unopenable", "registered", "new_done", "new_aborted"}

IsPrefix(s, t) == Len(s) <= Len(t) /\ \A i \in 1..Len(s) : s[i] = t[i]

\* C1: when a imports b and b imports a, the import of a inside b resolves to
\* the registry: a is not scanned and parsed again inside a module it
\* imports, and the recursion does not run out of stack.
C1_CycleNotReparsed ==
    /\ \A i, j \in 1..Len(stack) :
           (i < j /\ stack[i].file = stack[j].file)
               => \A m \in i..j : stack[m].file = stack[i].file
    /\ status = "overflow" => last.self

\* C2: the module names in the registry are pairwise distinct.
C2_NamesDistinct ==
    \A i, j \in 1..Len(parsed_modules) :
        i # j => parsed_modules[i].name # parsed_modules[j].name

\* C3: every registered module is at least one deeper than every registered
\* module that imports it.
C3_DeeperThanImporters ==
    \A i \in 1..Len(parsed_modules) :
        \A k \in 1..Len(parsed_modules[i].imported) :
            parsed_modules[parsed_modules[i].imported[k] + 1].second
                >= parsed_modules[i].second + 1

\* C4: an import of a module named like the current one reports an error and
\* returns: nothing is scanned or parsed, the registry and
\* current_module.imported stay as they are.
C4_SelfImportReturns ==
    [][(last'.op \in {"registered", "new", "overflow"} /\ last'.self)
          => /\ logger'.errors = logger.errors + 1
             /\ scans' = scans
             /\ parsed_modules' = parsed_modules
             /\ status' = "running"
             /\ stack' = Advance(stack)]_vars

\* C5: an import of a file that cannot be opened reports one error and leaves
\* the registry, every depth, current_module.imported and the sink's source
\* and module name as they were; the importer goes on with its next
\* declaration.
C5_UnopenableImport ==
    [][last'.op = "unopenable"
          => /\ logger'.errors = logger.errors + 1
             /\ logger'.source = logger.source
             /\ logger'.module_name = logger.module_name
             /\ parsed_modules' = parsed_modules
             /\ scans' = scans
             /\ status' = "running"
             /\ Len(stack') = Len(stack)
             /\ stack'[Len(stack)].current_module = top.current_module
             /\ stack'[Len(stack)].current = top.current + 1
             /\ \A k \in 1..(Len(stack) - 1) : stack'[k] = stack[k]]_vars

C5_Witness ==
    /\ last.op = "unopenable"
    /\ Len(stack) >= 2
    /\ Len(parsed_modules) >= 1
    /\ Len(top.current_module.imported) >= 1

\* C6: the registry is append-only.  A finished import of a module that was
\* not registered appends exactly one entry, at the importer's depth + 1, and
\* records its index in the importer's imported list; the entries before it
\* keep their place and their module, and no imported list loses or changes
\* an index.
SameModule(e1, e2) ==
    /\ e1.name = e2.name
    /\ e1.module_directory = e2.module_directory
    /\ e1.imported = e2.imported
    /\ e1.file = e2.file
    /\ e1.checks = e2.checks

C6_AppendOnly ==
    [][LET n == Len(parsed_modules)
       IN  /\ Len(parsed_modules') \in {n, n + 1}
           /\ \A i \in 1..n : SameModule(parsed_modules'[i], parsed_modules[i])
           /\ \A k \in 1..Len(stack') :
                  k <= Len(stack) =>
                      IsPrefix(stack[k].current_module.imported,
                               stack'[k].current_module.imported)
           /\ (last'.op \in {"new_done", "new_aborted"}) <=> (Len(parsed_modules') = n + 1)
           /\ Len(parsed_modules') = n + 1 =>
                  /\ parsed_modules'[n + 1].name = top.current_module.name
                  /\ parsed_modules'[n + 1].file = top.file
                  /\ parsed_modules'[n + 1].imported = top.current_module.imported
                  /\ parsed_modules'[n + 1].second =
                         stack[Len(stack) - 1].current_module_depth + 1
                  /\ Len(stack') = Len(stack) - 1
                  /\ stack'[Len(stack')].current_module.imported =
                         Append(stack[Len(stack) - 1].current_module.imported, n)]_vars

C6_Witness ==
    /\ last.op = "new_done"
    /\ Len(parsed_modules) >= 3
    /\ Len(stack) >= 2
    /\ \E i \in 1..Len(parsed_modules) : Len(parsed_modules[i].imported) >= 2

\* C7: when import_statement finishes, the sink's source and module name are
\* those it had when import_statement was entered.
C7_SinkRestored ==
    last.op \in Finished => SinkContext = last.entry

C7_Witness ==
    /\ last.op = "new_aborted"
    /\ Len(stack) >= 2
    /\ logger.errors >= 1
    /\ logger.source # RootFile

AboutToParseDeclaration ==
    /\ pstatus = "parsing"
    /\ peek(parser).type \notin {"END_OF_FILE", "END_OF_LINE"}

C9_ContextResetAtDeclaration ==
    AboutToParseDeclaration =>
        /\ ~parser.in_class
        /\ ~parser.in_function
        /\ ~parser.in_loop
        /\ ~parser.in_switch
        /\ parser.scope_depth = 0
        /\ parser.current_methods = NullMethods

\* program() is about to parse a declaration after two declarations that
\* ended in a parse error: `this` rejected inside a loop inside a function
\* (raised under the in_function and in_loop guards and two scope_depth
\* guards), then a keyword rejected at top level.
C9_Witness ==
    /\ AboutToParseDeclaration
    /\ Len(statements) >= 2
    /\ \A k \in 1..Len(statements) : statements[k] = Null
    /\ \E i \in 1..Len(parser.log) :
          /\ parser.log[i].event = "error"
          /\ parser.log[i].keyword = "this"
          /\ parser.log[i].lex.function /\ parser.log[i].lex.loop
    /\ \E i \in 1..Len(parser.log) :
          /\ parser.log[i].event = "error"
          /\ parser.log[i].lex = TopLevel

\* ---------------------------------------------------------------------------
\* C10: no contextual-keyword node is created outside its legal context
\* (Break inside a loop or switch body, Continue inside a loop body, Return
\* inside a function body, This and Super inside a method body of a class),
\* and in every other position the keyword produces a parse error and no
\* node.  The log holds every contextual keyword the parser took from the
\* stream outside error recovery.
C10_KeywordsOnlyInContext ==
    \A i \in 1..Len(parser.log) :
        /\ parser.log[i].event = "node" => Legal(parser.log[i].keyword, parser.log[i].lex)
        /\ ~Legal(parser.log[i].keyword, parser.log[i].lex) => parser.log[i].event = "error"

\* The first half alone: a node is allocated only in the keyword's legal
\* context, and a keyword that reaches its own statement or expression rule
\* outside of it is rejected.
C10_NodesOnlyInContext ==
    \A i \in 1..Len(parser.log) :
        parser.log[i].event # "name" =>
            (parser.log[i].event = "node"
                <=> Legal(parser.log[i].keyword, parser.log[i].lex))

\* ---------------------------------------------------------------------------
\* C11: every parse error raised inside a top-level declaration is caught by
\* declaration(): no exception leaves declaration(), the declaration puts
\* exactly one entry in program()'s statement list, and program() goes on
\* with the declarations that follow.
C11_DeclarationCatches ==
    [][Declaration =>
          /\ pstatus' = "parsing"
          /\ Len(statements') = Len(statements) + 1]_allvars

\* ---------------------------------------------------------------------------
\* C12: when an expression that is no variable, member access or index
\* expression is followed by =, +=, -=, *= or /= (as in `1 + 2 = 3;`), the
\* parser reports exactly one diagnostic for the statement, "Invalid
\* assignment target", leaves a null placeholder and resumes at the
\* statement after the `;`.
C12_InvalidAssignmentTarget ==
    [][\A e \in NonAssignable, op \in AssignmentTokens :
          (Declaration
             /\ StatementAt(e \o << op, T("INT_VALUE", "3"), T("SEMICOLON", ";") >>))
          => /\ parser'.errors = Append(parser.errors, "Invalid assignment target")
             /\ statements' = Append(statements, Null)
             /\ pstatus' = "parsing"
             /\ parser'.current = parser.current + Len(e) + 3]_allvars

\* `1 + 2 = 3; x;` parsed to the end: one diagnostic, one placeholder, and
\* the statement after it parsed.
C12_Witness ==
    /\ pstatus = "returned"
    /\ IsPrefix(<< T("INT_VALUE", "1"), T("PLUS", "+"), T("INT_VALUE", "2"),
                   T("EQUAL", "="), T("INT_VALUE", "3"), T("SEMICOLON", ";"),
                   T("IDENTIFIER", "x"), T("SEMICOLON", ";") >>, tokens)
    /\ parser.errors = << "Invalid assignment target" >>
    /\ statements = << Null,
                       [type |-> "ExpressionStmt",
                        expr |-> [type |-> "Variable", name |-> T("IDENTIFIER", "x")]] >>

\* ---------------------------------------------------------------------------
\* C13: every prefix unary operator (-, +, !, ~, ++, --) binds tighter than
\* every binary operator: `u a op b` parses as Binary(Unary(u, a), op, b),
\* so `-a + b` is Binary(Unary(-, a), +, b) and `-a * b` is
\* Binary(Unary(-, a), *, b).
C13_UnaryBindsTighter ==
    [][\A u \in UnaryOperators, op \in BinaryOperators :
          (Declaration
             /\ StatementAt(<< u, T("IDENTIFIER", "a"), op, T("IDENTIFIER", "b"),
                               T("SEMICOLON", ";") >>))
          => statements' = Append(statements,
                 [type |-> "ExpressionStmt",
                  expr |-> [type  |-> IF op.type \in {"AND", "OR"} THEN "Logical"
                                      ELSE "Binary",
                            left  |-> [type  |-> "Unary", oper |-> u,
                                       right |-> [type |-> "Variable",
                                                  name |-> T("IDENTIFIER", "a")]],
                            right |-> [type |-> "Variable", name |-> T("IDENTIFIER", "b")],
                            oper  |-> op]])]_allvars

C15_FloatMemberAccess ==
    [][LET x        == T("IDENTIFIER", "x")
           Three    == Literal(T("INT_VALUE", "3"), "INT", [int |-> 3])
           One      == Literal(T("INT_VALUE", "1"), "INT", [int |-> 1])
           Float(f) == Tok("FLOAT_VALUE", f[1] \o <<".">> \o f[2])
           Inner(f) == [type |-> "Get", object |-> [type |-> "Variable", name |-> x],
                        name |-> Tok("INT_VALUE", f[1])]
           Get(f)   == [type |-> "Get", object |-> Inner(f),
                        name |-> Tok("INT_VALUE", f[2])]
           Stmt(e)  == [type |-> "ExpressionStmt", expr |-> e]
       IN \A f \in FloatParts :
           /\ (Declaration
                 /\ StatementAt(<< x, T("DOT", "."), Float(f), T("SEMICOLON", ";") >>))
              => /\ statements' = Append(statements, Stmt(Get(f)))
                 /\ parser'.errors = parser.errors
           /\ (Declaration
                 /\ StatementAt(<< T("INT_VALUE", "1"), T("PLUS", "+"), x, T("DOT", "."),
                                   Float(f), T("SEMICOLON", ";") >>))
              => /\ statements' = Append(statements,
                       Stmt([type |-> "Binary", left |-> One, right |-> Get(f),
                             oper |-> T("PLUS", "+")]))
                 /\ parser'.errors = parser.errors
           /\ \A op \in AssignmentTokens :
                 /\ (Declaration
                       /\ StatementAt(<< x, T("DOT", "."), Float(f), op,
                                         T("INT_VALUE", "3"), T("SEMICOLON", ";") >>))
                    => /\ statements' = Append(statements,
                             Stmt([type |-> "Set", object |-> Inner(f),
                                   name |-> Tok("INT_VALUE", f[2]),
                                   value |-> Three, oper |-> op]))
                       /\ parser'.errors = parser.errors
                 /\ (Declaration
                       /\ StatementAt(<< T("INT_VALUE", "1"), T("PLUS", "+"), x,
                                         T("DOT", "."), Float(f), op,
                                         T("INT_VALUE", "3"), T("SEMICOLON", ";") >>))
                    => /\ statements' = Append(statements, Null)
                       /\ parser'.errors =
                             Append(parser.errors, "Invalid assignment target")]_allvars

\* `x.10.25 = 3;` has been parsed to Set(Get(Variable(x), 10), 25, 3).
C15_Witness ==
    /\ pstatus = "returned"
    /\ Len(tokens) >= 6
    /\ tokens[3] = Tok("FLOAT_VALUE", <<"1", "0", ".", "2", "5">>)
    /\ tokens[4].type = "EQUAL"
    /\ Len(statements) >= 1
    /\ statements[1].type = "ExpressionStmt"
    /\ statements[1].expr.type = "Set"
    /\ statements[1].expr.name = Tok("INT_VALUE", <<"2", "5">>)
    /\ statements[1].expr.object.type = "Get"
    /\ statements[1].expr.object.name = Tok("INT_VALUE", <<"1", "0">>)
    /\ statements[1].expr.object.object.type = "Variable"

\* ---------------------------------------------------------------------------
\* C16: a class that declares two methods whose name equals the class name
\* (two constructors) produces the diagnostic 'Cannot declare constructors or
\* destructors more than once' exactly once, and the second such method is
\* not added to the class.
C16_SecondConstructorRejected ==
    [][\A kinds \in MethodKinds :
          (Declaration
             /\ Cardinality({i \in DOMAIN kinds : kinds[i] = "C"}) = 2
             /\ \A i \in DOMAIN kinds : kinds[i] # "~C"
             /\ StatementAt(ClassStatementOf(kinds)))
          => LET node == statements'[Len(statements')]
             IN /\ Cardinality(
                      {i \in (Len(parser.errors) + 1)..Len(parser'.errors) :
                          parser'.errors[i]
                            = "Cannot declare constructors or destructors more than once"})
                      = 1
                /\ node # Null
                     => Cardinality({i \in DOMAIN node.methods :
                                        node.methods[i].method.name.lexeme = <<"C">>}) = 1
       ]_allvars

\* ---------------------------------------------------------------------------
\* C17: in every ClassStmt the parser produces, method names are pairwise
\* distinct and the methods list holds at most one constructor (declared
\* `fn Name`) and at most one destructor (declared `fn ~Name`); any further
\* constructor or destructor declaration, in any order, is rejected.
C17_OneConstructorOneDestructor ==
    \A s \in DOMAIN statements :
        statements[s].type = "Class"
        => LET methods == statements[s].methods
               name    == statements[s].name.lexeme
               Declared(tilde) ==
                   {i \in DOMAIN methods :
                       /\ methods[i].tilde = tilde
                       /\ methods[i].method.name.lexeme \in {name, <<"~">> \o name}}
           IN /\ \A i, j \in DOMAIN methods :
                    i # j => methods[i].method.name.lexeme # methods[j].method.name.lexeme
              /\ Cardinality(Declared(FALSE)) <= 1
              /\ Cardinality(Declared(TRUE)) <= 1

\* ---------------------------------------------------------------------------
\* C18: each entry of a module's classes and functions maps has a key equal to
\* the declaration's name lexeme and refers to a top-level declaration node
\* contained in the module's statements list; methods are never entered in
\* the functions map.  The module's statements list is what program() has
\* collected, and nothing once an exception has left program(): the vector
\* is destroyed and Module::statements is never assigned.
C18_TablesReferToStatements ==
    LET module_statements == IF pstatus = "threw" THEN << >> ELSE statements
        Listed(e, kind) ==
            /\ e.node.type = kind
            /\ e.key = e.node.name.lexeme
            /\ \E i \in DOMAIN module_statements : module_statements[i] = e.node
    IN /\ \A e \in parser.classes : Listed(e, "Class")
       /\ \A e \in parser.functions : Listed(e, "Function")
       /\ \A e \in parser.functions, i \in DOMAIN statements :
             statements[i].type = "Class"
             => \A m \in DOMAIN statements[i].methods :
                   statements[i].methods[m].method # e.node

\* ---------------------------------------------------------------------------
\* C19: parsing the same token stream twice in one process, with the module
\* tables as the first run left them, yields structurally identical
\* statement lists (same nodes, same null placeholders) and the same
\* diagnostics.
C19_SecondParseIdentical ==
    (first.pstatus # "none" /\ pstatus \in {"returned", "threw"})
    => /\ pstatus = first.pstatus
       /\ statements = first.statements
       /\ parser.errors = first.errors

\* ---------------------------------------------------------------------------
\* C20: importing a module that is already in the registry never lowers the
\* depth of any registry module: for every module, its depth after the
\* import is >= its depth before the import.
C20_DepthNeverLowered ==
    [][ImportRegistered
         => \A i \in DOMAIN parsed_modules :
               parsed_modules'[i].second >= parsed_modules[i].second]_allvars

\* ---------------------------------------------------------------------------
\* C21: after a parse error raised with the cursor at position p,
\* synchronize() leaves the cursor at the first position q >= p at which the
\* previous token is `;`, END_OF_LINE or `}` or the next token is one of
\* class, fn, for, if, import, private, protected, public, return, type,
\* const, var, while, break, continue; it discards no token when the token
\* at p already begins a declaration or statement.
C21_SynchronizeStopsAtFirst ==
    LET Stop(q) ==
            \/ q >= 1 /\ tokens[q].type \in {"SEMICOLON", "END_OF_LINE", "RIGHT_BRACE"}
            \/ q < Len(tokens)
                  /\ tokens[q + 1].type \in
                        {"CLASS", "FN", "FOR", "IF", "IMPORT", "PRIVATE", "PROTECTED",
                         "PUBLIC", "RETURN", "TYPE", "CONST", "VAR", "WHILE", "BREAK",
                         "CONTINUE"}
    IN  \A i \in DOMAIN parser.syncs :
           /\ Stop(parser.syncs[i].to)
           /\ \A q \in parser.syncs[i].from..(parser.syncs[i].to - 1) : ~Stop(q)

\* ---------------------------------------------------------------------------
\* C22: every two-operand infix operator other than ternary and assignment is
\* left-associative: for the arithmetic, bitwise, shift, range, ordering and
\* equality operators and for the logical `and`/`or`, `a op b op c` parses as
\* (a op b) op c.
C22_LeftAssociative ==
    [][LET Name(text) == [type |-> "Variable", name |-> T("IDENTIFIER", text)]
           Node(op, left, right) ==
               [type  |-> IF op.type \in {"AND", "OR"} THEN "Logical" ELSE "Binary",
                left  |-> left, right |-> right, oper |-> op]
       IN \A op \in BinaryOperators :
             (Declaration
                /\ StatementAt(<< T("IDENTIFIER", "a"), op, T("IDENTIFIER", "b"), op,
                                  T("IDENTIFIER", "c"), T("SEMICOLON", ";") >>))
             => statements' = Append(statements,
                    [type |-> "ExpressionStmt",
                     expr |-> Node(op, Node(op, Name("a"), Name("b")), Name("c"))])
      ]_allvars

\* ---------------------------------------------------------------------------
\* C23: for every ClassStmt, ctor (if non-null) refers to a method in that
\* class's own methods list that was declared without `~`, and dtor (if
\* non-null) refers to a method in that list that was declared with `~` and
\* whose name lexeme is `~` followed by the class name; neither refers to a
\* method that was rejected and dropped.
C23_CtorDtorPointers ==
    \A s \in DOMAIN statements :
        statements[s].type = "Class"
        => LET class == statements[s]
           IN /\ class.ctor # 0
                   => /\ class.ctor \in DOMAIN class.methods
                      /\ ~class.methods[class.ctor].tilde
              /\ class.dtor # 0
                   => /\ class.dtor \in DOMAIN class.methods
                      /\ class.methods[class.dtor].tilde
                      /\ class.methods[class.dtor].method.name.lexeme
                            = <<"~">> \o class.name.lexeme

\* ---------------------------------------------------------------------------
\* C24: each literal token in expression position (integer, float, string,
\* true, false, null) parses to a Literal expression whose type is the
\* matching primitive (INT, FLOAT, STRING, BOOL, BOOL, NULL_) flagged const
\* and not ref; in particular the `null` keyword is accepted as an expression.
C24_LiteralsParse ==
    [][LET Expected ==
               { << Tok("INT_VALUE", <<"4", "2">>), "INT", [int |-> 42] >>,
                 << Tok("FLOAT_VALUE", <<"2", ".", "5">>), "FLOAT",
                    [double |-> <<"2", ".", "5">>] >>,
                 << T("STRING_VALUE", "s"), "STRING", [string |-> <<"s">>] >>,
                 << T("TRUE", "true"), "BOOL", [bool |-> TRUE] >>,
                 << T("FALSE", "false"), "BOOL", [bool |-> FALSE] >>,
                 << T("NULL_", "null"), "NULL_", Null >> }
       IN \A l \in Expected :
             (Declaration /\ StatementAt(<< l[1], T("SEMICOLON", ";") >>))
             => /\ parser'.errors = parser.errors
                /\ statements' = Append(statements,
                      [type |-> "ExpressionStmt",
                       expr |-> [type  |-> "Literal", token |-> l[1], value |-> l[3],
                                 info  |-> [type |-> "PrimitiveType", primitive |-> l[2],
                                            is_const |-> TRUE, is_ref |-> FALSE]]])
      ]_allvars

\* ---------------------------------------------------------------------------
\* C25: for every token sequence that ends with exactly one END_OF_FILE token,
\* the cursor `current` stays below tokens.size() whenever peek() is
\* evaluated, also after error recovery by synchronize().  While program()
\* is running, the condition of its loop evaluates peek() next.
C25_PeekBelowSize ==
    pstatus = "parsing" => parser.current < Len(tokens)

\* ---------------------------------------------------------------------------
\* C26: for every registry entry at index i, every index in its imported list
\* is smaller than i and smaller than the registry size, so the import graph
\* stored in the registry is acyclic and recursively_change_module_depth
\* terminates on every call.  (Indices are 0-based, as in the program.)
C26_ImportedIndicesSmaller ==
    \A i \in DOMAIN parsed_modules :
        \A k \in DOMAIN parsed_modules[i].imported :
            /\ parsed_modules[i].imported[k] >= 0
            /\ parsed_modules[i].imported[k] < i - 1
            /\ parsed_modules[i].imported[k] < Len(parsed_modules)

\* An import of a registered module has just returned, and the registry's
\* third module imports the two before it.
C26_Witness ==
    /\ last.op = "registered"
    /\ Len(parsed_modules) >= 3
    /\ Len(parsed_modules[3].imported) = 2
    /\ parsed_modules[3].imported[1] # parsed_modules[3].imported[2]

\* ---------------------------------------------------------------------------
\* C27: in every FunctionStmt the parser produces, each parameter name token
\* has kind IDENTIFIER; a parameter list whose name position holds any other
\* token (keyword, literal, punctuator) is rejected with a parse error.
C27_ParameterNamesAreIdentifiers ==
    LET Named(function) ==
            \A k \in DOMAIN function.params : function.params[k][1].type = "IDENTIFIER"
    IN  \A s \in DOMAIN statements :
           /\ statements[s].type = "Function" => Named(statements[s])
           /\ statements[s].type = "Class"
                => \A m \in DOMAIN statements[s].methods :
                      Named(statements[s].methods[m].method)

====
